---- MODULE Spec2Model ----
(***************************************************************************)
(* Model of the per-host install reconciliation of kubekey's KKInstance    *)
(* controller (controllers/kkinstance/kkinstance_controller_phase.go).     *)
(*                                                                         *)
(* One host object is reconciled over and over.  A reconcile cycle pings   *)
(* the host and then walks the phase list that phaseFactory returns for    *)
(* the host's distribution.  Every phase is modelled operation by          *)
(* operation: the deferred condition write, the IsTrue early return, each  *)
(* service call and each SSH command is a step of its own, so that the     *)
(* order of calls and the values written to the conditions are those of    *)
(* the code.                                                               *)
(***************************************************************************)
EXTENDS Integers, Sequences, FiniteSets, TLC

(***************************************************************************)
(* Bounds of the model.                                                    *)
(***************************************************************************)
\* number of failures the environment may inject over a whole behaviour
MaxFaults == 3
\* largest number of commands a bootstrap payload parses to
MaxCommands == 2
\* the per-phase success counter saturates here
WorkCap == 2

(***************************************************************************)
(* Program constants.                                                      *)
(***************************************************************************)
\* reconcilePing: for i := 0; i < 3; i++
PingAttempts == 3

KUBERNETES == "KUBERNETES"
K3S == "K3S"
\* a distribution string that is neither infrav1.KUBERNETES nor infrav1.K3S
UNLISTED == "UNLISTED"
Distributions == {KUBERNETES, K3S, UNLISTED}

Bootstrap == "Bootstrap"
Repository == "Repository"
BinaryService == "BinaryService"
ContainerManager == "ContainerManager"
Provisioning == "Provisioning"
Phases == {Bootstrap, Repository, BinaryService, ContainerManager, Provisioning}

\* condition types written by the install phases, and the summary condition
ConditionTypes ==
  {"Bootstrapped", "RepositoryReady", "BinariesReady", "CRIReady", "Provisioned", "Ready", "DeletingBootstrap"}

InstanceStates == {"Pending", "Bootstrapping", "Running", "Cleaning", "Succeeded", "Failed"}

\* error texts a failing remote operation may carry
ErrTexts == {"404 Not Found", "exit status 1"}
\* the text of context.Canceled
Canceled == "context canceled"

\* the nil error; an error is the chain of its texts, outermost wrap first
Nil == <<>>

\* errors.Wrap(e, msg): Error() is msg + ": " + e.Error()
Wrap(e, msg) == <<msg>> \o e

\* a condition that was never written
Unset == [status |-> "Unset", reason |-> "", severity |-> "", message |-> Nil]

VARIABLES
  dist,      \* kkInstanceScope.Distribution()
  state,     \* KKInstance.Status.InstanceState
  conds,     \* KKInstance.Status.Conditions, by type
  pc,        \* position of the reconciler
  pi,        \* index of the current phase in the phase list
  step,      \* position inside the body of the current phase
  i,         \* loop variable of reconcilePing
  err,       \* named result err of the current function
  calls,     \* service operations and SSH commands issued by the current function
  deferred,  \* stack of deferred functions of the current function
  cmds,      \* number of provisioning commands the bootstrap data parsed to
  faults,    \* failures injected so far
  entry,     \* state and conditions when the current phase was entered
  begin,     \* conditions when the current cycle started
  ran,       \* phases invoked in the current cycle, in order
  work,      \* per phase: how often its remote work completed successfully
  invoked,   \* phases invoked in any cycle
  seen,      \* instance states the host has been in
  machines,  \* controlPlane.Machines: NodeRef, deletion timestamp, MachineAgentHealthy
  nodes,     \* controlPlaneNodes.Items as listed from the workload cluster
  kcp,       \* ControlPlaneComponentsHealthy of controlPlane.KCP
  hpc,       \* position of UpdateAgentConditions
  ni,        \* index of the node the loop of UpdateAgentConditions is at
  kcpErrors, \* kcpErrors of UpdateAgentConditions
  got,       \* what each w.Client.Get of a node gave, in order
  etcd,      \* MachineEtcdMemberHealthy of each machine
  kcpEtcd,   \* EtcdClusterHealthy of controlPlane.KCP
  epc,       \* position of updateManagedEtcdConditions
  ei,        \* index of the node the loop of updateManagedEtcdConditions is at
  ecalls,    \* requests updateManagedEtcdConditions made to the workload cluster
  cpMachines, \* ControlPlane.Machines: failure domain, creation time, delete annotation
  cpDomains,  \* ids of the control-plane failure domains in Cluster.Status.FailureDomains
  cpInput,    \* the machines passed to a selection function
  cpOut,      \* what the selection function returned
  pipe,       \* the pipeline that was started
  inv,        \* inventory: the role of each host, "absent" for a host not in it
  conf,       \* the cluster declaration and command arguments the pipeline reads
  facts,      \* per host: what is installed on it
  ppc,        \* position of Pipeline.Start
  mi,         \* index of the current module
  ti,         \* index of the current task of the module
  hs,         \* per host: its status in the current task
  att,        \* per host: attempts of the action made in the current task
  started,    \* hosts in the order the action of the current task started on them
  rcmds,      \* mutating remote commands of this run, as (host, module, task)
  pcache,     \* keys of the pipeline cache and, behind the host name, of the host caches
  trace,      \* modules handled in this run, in order, with their outcome
  pres,       \* what the pipeline function returned
  pfaults,    \* action failures injected so far
  runs,       \* number of times the pipeline was started
  aact,       \* the task action being executed
  apc,        \* position inside its Execute
  acache,     \* what the pipeline cache holds for the action
  aworld,     \* the cluster objects and the host files the action works on
  aworld0,    \* the same when the current execution began
  aops,       \* API requests and remote commands of the current execution
  aret,       \* what Execute returned
  afault,     \* a request or command of the current execution failed on its own
  aexec,      \* executions so far
  cpDeleting, \* control-plane machines with a deletion timestamp
  cpMatches,  \* control-plane machines whose spec matches the KCP configuration
  rolloutAfter,       \* KCP.Spec.RolloutAfter, 0 when not set
  reconciliationTime, \* ControlPlane.reconciliationTime
  cpRollout,  \* what MachinesNeedingRollout and UpToDateMachines returned
  qact,       \* the confirmation action being executed
  qopt,       \* what the action finds before it asks: arguments, caches, the file
  qlines,     \* complete lines still to be read from standard input
  qtail,      \* what follows the last newline of standard input
  qpc,        \* position inside Execute
  qres        \* how Execute ended: returned nil or an error, or the process exited

\* the state of the control-plane health pass
hvars == <<machines, nodes, kcp, hpc, ni, kcpErrors, got>>

\* the state of the etcd member health pass
evars == <<etcd, kcpEtcd, epc, ei, ecalls>>

\* the state of the deletion-candidate selection
svars == <<cpMachines, cpDomains, cpInput, cpOut>>

\* the state of the pipeline engine
pvars == <<pipe, inv, conf, facts, ppc, mi, ti, hs, att, started, rcmds, pcache, trace, pres,
           pfaults, runs>>

\* the state of the rollout selection
rvars == <<cpDeleting, cpMatches, rolloutAfter, reconciliationTime, cpRollout>>

\* the state of one confirmation action
qvars == <<qact, qopt, qlines, qtail, qpc, qres>>

\* the state of one task action
avars == <<aact, apc, acache, aworld, aworld0, aops, aret, afault, aexec>>

vars == <<dist, state, conds, pc, pi, step, i, err, calls, deferred, cmds, faults,
          entry, begin, ran, work, invoked, seen, hvars, evars, svars, pvars, avars, rvars, qvars>>

\* what the install reconciler leaves alone
notInstall == <<hvars, evars, svars, pvars, avars, rvars, qvars>>

(***************************************************************************)
(* phaseFactory: the switch on the distribution has no default case.       *)
(***************************************************************************)
\* a default case that falls back to the full list
phaseFactoryDefaultFull(d) ==
  CASE d = K3S -> <<Bootstrap, Repository, BinaryService, Provisioning>>
    [] OTHER -> <<Bootstrap, Repository, BinaryService, ContainerManager, Provisioning>>

\* the K3S case copied from the KUBERNETES case without removing the container manager
phaseFactoryK3sFull(d) ==
  CASE d = KUBERNETES -> <<Bootstrap, Repository, BinaryService, ContainerManager, Provisioning>>
    [] d = K3S -> <<Bootstrap, Repository, BinaryService, ContainerManager, Provisioning>>
    [] OTHER -> <<>>

\* the KUBERNETES case without the container manager
phaseFactoryNoCRI(d) ==
  CASE d = KUBERNETES -> <<Bootstrap, Repository, BinaryService, Provisioning>>
    [] d = K3S -> <<Bootstrap, Repository, BinaryService, Provisioning>>
    [] OTHER -> <<>>

\* the K3S case with two phases in the wrong order
phaseFactorySwapped(d) ==
  CASE d = KUBERNETES -> <<Bootstrap, Repository, BinaryService, ContainerManager, Provisioning>>
    [] d = K3S -> <<Bootstrap, BinaryService, Repository, Provisioning>>
    [] OTHER -> <<>>

phaseFactory(d) ==
  CASE d = KUBERNETES -> <<Bootstrap, Repository, BinaryService, ContainerManager, Provisioning>>
    [] d = K3S -> <<Bootstrap, Repository, BinaryService, Provisioning>>
    [] OTHER -> <<>>

\* the phase function the loop is executing
cur == phaseFactory(dist)[pi]

(***************************************************************************)
(* The condition, reason and severity each phase passes to                 *)
(* conditions.MarkTrue / conditions.MarkFalse in its deferred function.    *)
(***************************************************************************)
PhaseCondition(p) ==
  CASE p = Bootstrap -> "Bootstrapped"
    [] p = Repository -> "RepositoryReady"
    [] p = BinaryService -> "BinariesReady"
    [] p = ContainerManager -> "CRIReady"
    [] p = Provisioning -> "Provisioned"

\* one reason code pasted into every phase
PhaseReasonPasted(p) == "InitOSFailed"

PhaseReason(p) ==
  CASE p = Bootstrap -> "InitOSFailed"
    [] p = Repository -> "RepositoryFailed"
    [] p = BinaryService -> "GetBinaryFailed"
    [] p = ContainerManager -> "InstallCRIFailed"
    [] p = Provisioning -> "RunCloudConfigFailed"

\* every phase failure reported as a warning
PhaseSeverityAllWarning(p) == "Warning"

PhaseSeverity(p) ==
  CASE p = Bootstrap -> "Warning"
    [] p = Repository -> "Warning"
    [] p = BinaryService -> "Error"
    [] p = ContainerManager -> "Error"
    [] p = Provisioning -> "Error"

\* conditions.IsTrue
IsTrue(cs, t) == cs[t].status = "True"

\* conditions.MarkTrue: a True condition carries no reason, severity or message
MarkTrue(cs, t) ==
  [cs EXCEPT ![t] = [status |-> "True", reason |-> "", severity |-> "", message |-> Nil]]

\* conditions.MarkFalse
MarkFalse(cs, t, reason, severity, message) ==
  [cs EXCEPT ![t] = [status |-> "False", reason |-> reason, severity |-> severity, message |-> message]]

\* a deferred function pasted from reconcileBootstrap: the failure goes to Bootstrapped
DeferredMarkPasted(cs, p, e) ==
  IF e # Nil
    THEN MarkFalse(cs, "Bootstrapped", PhaseReason(p), PhaseSeverity(p), e)
    ELSE MarkTrue(cs, PhaseCondition(p))

\* a deferred function without the else branch: success is never recorded
DeferredMarkNoTrue(cs, p, e) ==
  IF e # Nil
    THEN MarkFalse(cs, PhaseCondition(p), PhaseReason(p), PhaseSeverity(p), e)
    ELSE cs

\* the deferred function of a phase: MarkFalse with err.Error() when err != nil, else MarkTrue
DeferredMark(cs, p, e) ==
  IF e # Nil
    THEN MarkFalse(cs, PhaseCondition(p), PhaseReason(p), PhaseSeverity(p), e)
    ELSE MarkTrue(cs, PhaseCondition(p))

\* instanceScope.SetState
SetState(s) == /\ state' = s
               /\ seen' = seen \cup {s}

\* one more operation issued by the current function
\* (ok is the result of a probe or "no error"; text is the error text, "" if none;
\* arg is the position of the command in the parsed bootstrap data, 0 for any other call)
CalledWith(op, ok, text, arg) ==
  calls' = Append(calls, [op |-> op, ok |-> ok, text |-> text, arg |-> arg])

Called(op, ok, text) == CalledWith(op, ok, text, 0)

\* the environment lets an operation fail only while its budget lasts
MayFail == faults < MaxFaults

InstallInit ==
  /\ dist \in Distributions
  /\ state = "Pending"
  /\ conds = [t \in ConditionTypes |-> Unset]
  /\ pc = "idle"
  /\ pi = 0
  /\ step = 0
  /\ i = 0
  /\ err = Nil
  /\ calls = <<>>
  /\ deferred = <<>>
  /\ cmds = 0
  /\ faults = 0
  /\ entry = [state |-> "Pending", conds |-> [t \in ConditionTypes |-> Unset]]
  /\ begin = [t \in ConditionTypes |-> Unset]
  /\ ran = <<>>
  /\ work = [p \in Phases |-> 0]
  /\ invoked = {}
  /\ seen = {"Pending"}

MachineNames == {"m1", "m2"}
NodeNames == {"n1", "n2"}

\* no condition of the type on the object (conditions.Get returns nil)
NoCond == [status |-> "None", reason |-> "", severity |-> "", message |-> <<>>]

\* no health pass is running and there is nothing to inspect
HealthOff ==
  /\ etcd = [m \in MachineNames |-> NoCond]
  /\ kcpEtcd = NoCond
  /\ epc = "off"
  /\ ei = 0
  /\ ecalls = <<>>
  /\ machines = [m \in MachineNames |-> [nodeRef |-> "none", deleting |-> FALSE, agent |-> NoCond]]
  /\ nodes = <<>>
  /\ kcp = NoCond
  /\ hpc = "off"
  /\ ni = 0
  /\ kcpErrors = <<>>
  /\ got = <<>>

CPMachineNames == {"a", "b", "c"}

\* no selection function is called
SelectOff ==
  /\ cpMachines = [m \in CPMachineNames |-> [fd |-> "nil", created |-> 1, annotated |-> FALSE]]
  /\ cpDomains = {}
  /\ cpInput = {}
  /\ cpOut = [fn |-> "off", machines |-> {}, err |-> FALSE]

HostNames == {"h1", "h2"}

DefaultConf ==
  [containerManager |-> "docker", atLeastV124 |-> FALSE, buildx |-> FALSE, artifact |-> "",
   skipConfigureOS |-> FALSE, address |-> "lb", role |-> "all", installPackages |-> FALSE]

\* no pipeline is started
PipeOff ==
  /\ pipe = "none"
  /\ inv = [h \in HostNames |-> "absent"]
  /\ conf = DefaultConf
  /\ facts = [h \in HostNames |-> {}]
  /\ ppc = "off"
  /\ mi = 0
  /\ ti = 0
  /\ hs = [h \in HostNames |-> "idle"]
  /\ att = [h \in HostNames |-> 0]
  /\ started = <<>>
  /\ rcmds = {}
  /\ pcache = {}
  /\ trace = <<>>
  /\ pres = "none"
  /\ pfaults = 0
  /\ runs = 0

\* the tmp dir and /usr/bin of a host, the namespace and ConfigMap of a cluster
NoWorld == [ns |-> FALSE, cm |-> FALSE, tmp |-> {}, bin |-> FALSE]

\* no task action is executed
ActionOff ==
  /\ aact = "none"
  /\ apc = "off"
  /\ acache = [status |-> "none", binaries |-> "none"]
  /\ aworld = NoWorld
  /\ aworld0 = NoWorld
  /\ aops = <<>>
  /\ aret = "none"
  /\ afault = FALSE
  /\ aexec = 0

\* neither rollout function has returned
NoRollout == [needDone |-> FALSE, need |-> {}, upDone |-> FALSE, up |-> {}]

\* there is no control plane to roll out
RolloutOff ==
  /\ cpDeleting = {}
  /\ cpMatches = {}
  /\ rolloutAfter = 0
  /\ reconciliationTime = 0
  /\ cpRollout = NoRollout

\* no confirmation is asked
ConfirmOff ==
  /\ qact = "none"
  /\ qopt = "none"
  /\ qlines = <<>>
  /\ qtail = ""
  /\ qpc = "off"
  /\ qres = "none"

Init == InstallInit /\ HealthOff /\ SelectOff /\ PipeOff /\ ActionOff /\ RolloutOff /\ ConfirmOff

(***************************************************************************)
(* Start of a reconcile cycle.  A Pending host becomes Bootstrapping, the  *)
(* host is pinged, then the phases are walked.                             *)
(***************************************************************************)
StartReconcile ==
  /\ pc = "idle"
  /\ state # "Cleaning"
  /\ IF state = "Pending" THEN SetState("Bootstrapping") ELSE UNCHANGED <<state, seen>>
  /\ pc' = "ping"
  /\ pi' = 0
  /\ i' = 0
  /\ err' = Nil
  /\ calls' = <<>>
  /\ begin' = conds
  /\ ran' = <<>>
  /\ UNCHANGED <<notInstall, dist, conds, step, deferred, cmds, faults, entry, work, invoked>>

(***************************************************************************)
(* reconcilePing: up to three Ping attempts, stop at the first success,    *)
(* return the last error.                                                  *)
(***************************************************************************)
\* the loop without the break: a successful Ping is followed by the next attempt
PingOKNoBreak ==
  /\ pc = "ping"
  /\ i < PingAttempts
  /\ Called("Ping", TRUE, "")
  /\ err' = Nil
  /\ i' = i + 1
  /\ pc' = IF i + 1 < PingAttempts THEN "ping" ELSE "returned"
  /\ UNCHANGED <<notInstall, dist, state, conds, pi, step, deferred, cmds, faults, entry, begin, ran, work, invoked, seen>>

PingOK ==
  /\ pc = "ping"
  /\ i < PingAttempts
  /\ Called("Ping", TRUE, "")
  /\ err' = Nil
  /\ pc' = "returned"
  /\ UNCHANGED <<notInstall, dist, state, conds, pi, step, i, deferred, cmds, faults, entry, begin, ran, work, invoked, seen>>

PingFail ==
  /\ pc = "ping"
  /\ i < PingAttempts
  /\ MayFail
  /\ \E t \in ErrTexts : err' = <<t>> /\ Called("Ping", FALSE, t)
  /\ faults' = faults + 1
  /\ i' = i + 1
  /\ pc' = IF i + 1 < PingAttempts THEN "ping" ELSE "returned"
  /\ UNCHANGED <<notInstall, dist, state, conds, pi, step, deferred, cmds, entry, begin, ran, work, invoked, seen>>

reconcilePing == PingOK \/ PingFail

(***************************************************************************)
(* Entry of a phase function: the deferred condition write is registered,  *)
(* then the phase returns nil at once if its condition is already True.    *)
(* reconcileBootstrap alone sets the instance state when it goes on.       *)
(***************************************************************************)
\* a phase that forgets the early return
AlreadyDoneNever(p) == FALSE

AlreadyDone(p) == IsTrue(conds, PhaseCondition(p))

\* every phase that goes on sets the instance state
EnterSetsStateInEveryPhase(p) ==
  /\ pc = "enter"
  /\ cur = p
  /\ deferred' = <<"mark">>
  /\ entry' = [state |-> state, conds |-> conds]
  /\ calls' = <<>>
  /\ err' = Nil
  /\ ran' = Append(ran, p)
  /\ invoked' = invoked \cup {p}
  /\ IF AlreadyDone(p)
       THEN /\ pc' = "defer"
            /\ step' = 0
            /\ UNCHANGED <<state, seen>>
       ELSE /\ pc' = "run"
            /\ step' = 1
            /\ SetState("Bootstrapping")
  /\ UNCHANGED <<notInstall, dist, conds, pi, i, cmds, faults, begin, work>>

Enter(p) ==
  /\ pc = "enter"
  /\ cur = p
  /\ deferred' = <<"mark">>
  /\ entry' = [state |-> state, conds |-> conds]
  /\ calls' = <<>>
  /\ err' = Nil
  /\ ran' = Append(ran, p)
  /\ invoked' = invoked \cup {p}
  /\ IF AlreadyDone(p)
       THEN /\ pc' = "defer"
            /\ step' = 0
            /\ UNCHANGED <<state, seen>>
       ELSE /\ pc' = "run"
            /\ step' = 1
            /\ IF p = Bootstrap THEN SetState("Bootstrapping") ELSE UNCHANGED <<state, seen>>
  /\ UNCHANGED <<notInstall, dist, conds, pi, i, cmds, faults, begin, work>>

\* a step of the body that does not touch the host object
BodyFrame == UNCHANGED <<notInstall, dist, state, conds, pi, i, entry, begin, ran, work, invoked, seen>>

\* operation op succeeds; the body goes on at step next, or returns nil when last
StepOK(op, last) ==
  /\ Called(op, TRUE, "")
  /\ err' = Nil
  /\ IF last THEN pc' = "defer" /\ step' = step
             ELSE pc' = "run" /\ step' = step + 1
  /\ UNCHANGED <<faults, deferred, cmds>>

\* operation op fails with some error text; the body returns the error, wrapped in msg if any
StepFail(op, texts, msg) ==
  /\ MayFail
  /\ \E t \in texts :
       /\ err' = IF msg = "" THEN <<t>> ELSE Wrap(<<t>>, msg)
       /\ Called(op, FALSE, t)
  /\ faults' = faults + 1
  /\ pc' = "defer"
  /\ UNCHANGED <<step, deferred, cmds>>

(***************************************************************************)
(* The deferred functions of a phase run last registered first: the        *)
(* UmountISO of reconcileRepository (its result is dropped), then the      *)
(* condition write.                                                        *)
(***************************************************************************)
\* the error of UmountISO becomes the error the phase returns
DeferredUmountSetsErr(p) ==
  /\ pc = "defer"
  /\ cur = p
  /\ Head(deferred) = "UmountISO"
  /\ \/ Called("UmountISO", TRUE, "") /\ UNCHANGED <<faults, err>>
     \/ /\ MayFail
        /\ \E t \in ErrTexts : Called("UmountISO", FALSE, t) /\ err' = <<t>>
        /\ faults' = faults + 1
  /\ deferred' = Tail(deferred)
  /\ UNCHANGED <<step, cmds, pc>>
  /\ BodyFrame

DeferredUmount(p) ==
  /\ pc = "defer"
  /\ cur = p
  /\ Head(deferred) = "UmountISO"
  /\ \/ Called("UmountISO", TRUE, "") /\ UNCHANGED faults
     \/ /\ MayFail
        /\ \E t \in ErrTexts : Called("UmountISO", FALSE, t)
        /\ faults' = faults + 1
  /\ deferred' = Tail(deferred)
  /\ UNCHANGED <<err, step, cmds, pc>>
  /\ BodyFrame

DeferredWrite(p) ==
  /\ pc = "defer"
  /\ cur = p
  /\ Head(deferred) = "mark"
  /\ conds' = DeferredMark(conds, p, err)
  /\ deferred' = Tail(deferred)
  /\ pc' = "returned"
  /\ work' = IF calls # <<>> /\ err = Nil /\ work[p] < WorkCap
               THEN [work EXCEPT ![p] = @ + 1] ELSE work
  /\ UNCHANGED <<notInstall, dist, state, pi, step, i, err, calls, cmds, faults, entry, begin, ran, invoked, seen>>

(***************************************************************************)
(* reconcileBootstrap                                                      *)
(***************************************************************************)
BootstrapOps == <<"AddUsers", "SetHostname", "CreateDirectory", "ResetTmpDirectory", "ExecInitScript">>

BootstrapBody ==
  /\ pc = "run"
  /\ cur = Bootstrap
  /\ \/ StepOK(BootstrapOps[step], step = Len(BootstrapOps))
     \/ StepFail(BootstrapOps[step], ErrTexts, "")
  /\ BodyFrame

reconcileBootstrap == Enter(Bootstrap) \/ BootstrapBody \/ DeferredWrite(Bootstrap)

(***************************************************************************)
(* reconcileRepository: Check, Get, MountISO, UpdateAndInstall; UmountISO  *)
(* is deferred as soon as MountISO has been called.                        *)
(***************************************************************************)
RepositoryCheck ==
  /\ step = 1
  /\ \/ StepOK("Check", FALSE)
     \/ StepFail("Check", ErrTexts, "")

RepositoryGet ==
  /\ step = 2
  /\ \/ StepOK("Get", FALSE)
     \/ StepFail("Get", ErrTexts, "")

\* the unmount deferred only after the error check, so only when MountISO succeeded
RepositoryMountISODeferLate ==
  /\ step = 3
  /\ \/ /\ Called("MountISO", TRUE, "")
        /\ deferred' = <<"UmountISO">> \o deferred
        /\ err' = Nil
        /\ pc' = "run"
        /\ step' = 4
        /\ UNCHANGED faults
     \/ /\ MayFail
        /\ \E t \in ErrTexts : err' = <<t>> /\ Called("MountISO", FALSE, t)
        /\ faults' = faults + 1
        /\ pc' = "defer"
        /\ UNCHANGED <<step, deferred>>
  /\ UNCHANGED cmds

RepositoryMountISO ==
  /\ step = 3
  /\ deferred' = <<"UmountISO">> \o deferred
  /\ \/ /\ Called("MountISO", TRUE, "")
        /\ err' = Nil
        /\ pc' = "run"
        /\ step' = 4
        /\ UNCHANGED faults
     \/ /\ MayFail
        /\ \E t \in ErrTexts : err' = <<t>> /\ Called("MountISO", FALSE, t)
        /\ faults' = faults + 1
        /\ pc' = "defer"
        /\ UNCHANGED step
  /\ UNCHANGED cmds

RepositoryUpdateAndInstall ==
  /\ step = 4
  /\ \/ StepOK("UpdateAndInstall", TRUE)
     \/ StepFail("UpdateAndInstall", ErrTexts, "")

RepositoryBody ==
  /\ pc = "run"
  /\ cur = Repository
  /\ RepositoryCheck \/ RepositoryGet \/ RepositoryMountISO \/ RepositoryUpdateAndInstall
  /\ BodyFrame

reconcileRepository ==
  Enter(Repository) \/ RepositoryBody \/ DeferredUmount(Repository) \/ DeferredWrite(Repository)

(***************************************************************************)
(* reconcileBinaryService                                                  *)
(***************************************************************************)
\* binary.NewService: the service for the distribution, nil for any other value
NewService(d) ==
  CASE d = KUBERNETES -> "kubernetes.Service"
    [] d = K3S -> "k3s.Service"
    [] OTHER -> "nil"

\* svc.Download on a nil service is a nil dereference: the function does not go on
BinaryServiceBody ==
  /\ pc = "run"
  /\ cur = BinaryService
  /\ NewService(dist) # "nil"
  /\ \/ StepOK("Download", TRUE)
     \/ StepFail("Download", ErrTexts, "")
  /\ BodyFrame

reconcileBinaryService == Enter(BinaryService) \/ BinaryServiceBody \/ DeferredWrite(BinaryService)

(***************************************************************************)
(* reconcileContainerManager: nothing is installed when a runtime exists.  *)
(***************************************************************************)
\* the test of IsExist negated: an existing runtime is installed over
ContainerManagerIsExistNegated ==
  /\ step = 1
  /\ \E exists \in BOOLEAN :
       /\ Called("IsExist", exists, "")
       /\ IF ~exists THEN pc' = "defer" /\ step' = step
                     ELSE pc' = "run" /\ step' = 2
  /\ err' = Nil
  /\ UNCHANGED <<faults, deferred, cmds>>

ContainerManagerIsExist ==
  /\ step = 1
  /\ \E exists \in BOOLEAN :
       /\ Called("IsExist", exists, "")
       /\ IF exists THEN pc' = "defer" /\ step' = step
                    ELSE pc' = "run" /\ step' = 2
  /\ err' = Nil
  /\ UNCHANGED <<faults, deferred, cmds>>

ContainerManagerGet ==
  /\ step = 2
  /\ \/ StepOK("Get", FALSE)
     \/ StepFail("Get", ErrTexts, "")

ContainerManagerInstall ==
  /\ step = 3
  /\ \/ StepOK("Install", TRUE)
     \/ StepFail("Install", ErrTexts, "")

ContainerManagerBody ==
  /\ pc = "run"
  /\ cur = ContainerManager
  /\ ContainerManagerIsExist \/ ContainerManagerGet \/ ContainerManagerInstall
  /\ BodyFrame

reconcileContainerManager ==
  Enter(ContainerManager) \/ ContainerManagerBody \/ DeferredWrite(ContainerManager)

(***************************************************************************)
(* reconcileProvisioning: fetch the bootstrap data (the one call that      *)
(* takes the context), parse it into commands, run each with sudo.         *)
(***************************************************************************)
ProvisioningGetData ==
  /\ step = 1
  /\ \/ StepOK("GetRawBootstrapDataWithFormat", FALSE)
     \/ StepFail("GetRawBootstrapDataWithFormat", ErrTexts \cup {Canceled}, "")

ProvisioningParse ==
  /\ step = 2
  /\ \/ \E k \in 0..MaxCommands :
          /\ cmds' = k
          /\ Called("RawBootstrapDataToProvisioningCommands", TRUE, "")
          /\ err' = Nil
          /\ IF k = 0 THEN pc' = "defer" /\ step' = step
                      ELSE pc' = "run" /\ step' = 3
          /\ UNCHANGED <<faults, deferred>>
     \/ StepFail("RawBootstrapDataToProvisioningCommands", ErrTexts,
                 "failed to join a control plane node with kubeadm")

\* for _, command := range commands: the k-th iteration takes the k-th command
ProvisioningCommand(k) == k

\* the loop does not stop at a failing command
ProvisioningSudoCmdGoesOn ==
  /\ step > 2
  /\ \/ /\ CalledWith("SudoCmd", TRUE, "", ProvisioningCommand(step - 2))
        /\ err' = Nil
        /\ IF step = 2 + cmds THEN pc' = "defer" /\ step' = step
                               ELSE pc' = "run" /\ step' = step + 1
        /\ UNCHANGED <<faults, deferred, cmds>>
     \/ /\ MayFail
        /\ \E t \in ErrTexts :
             /\ err' = Wrap(<<t>>, "failed to run cloud config")
             /\ CalledWith("SudoCmd", FALSE, t, ProvisioningCommand(step - 2))
        /\ faults' = faults + 1
        /\ IF step = 2 + cmds THEN pc' = "defer" /\ step' = step
                               ELSE pc' = "run" /\ step' = step + 1
        /\ UNCHANGED <<deferred, cmds>>

ProvisioningSudoCmd ==
  /\ step > 2
  /\ \/ /\ CalledWith("SudoCmd", TRUE, "", ProvisioningCommand(step - 2))
        /\ err' = Nil
        /\ IF step = 2 + cmds THEN pc' = "defer" /\ step' = step
                               ELSE pc' = "run" /\ step' = step + 1
        /\ UNCHANGED <<faults, deferred, cmds>>
     \/ /\ MayFail
        /\ \E t \in ErrTexts :
             /\ err' = Wrap(<<t>>, "failed to run cloud config")
             /\ CalledWith("SudoCmd", FALSE, t, ProvisioningCommand(step - 2))
        /\ faults' = faults + 1
        /\ pc' = "defer"
        /\ UNCHANGED <<step, deferred, cmds>>

ProvisioningBody ==
  /\ pc = "run"
  /\ cur = Provisioning
  /\ ProvisioningGetData \/ ProvisioningParse \/ ProvisioningSudoCmd
  /\ BodyFrame

reconcileProvisioning == Enter(Provisioning) \/ ProvisioningBody \/ DeferredWrite(Provisioning)

(***************************************************************************)
(* The loop over the phase list.  An error of the ping or of a phase ends  *)
(* the cycle with the host Failed; when the last phase has returned and    *)
(* every phase condition is True the host is Succeeded and Ready.          *)
(***************************************************************************)
LoopFrame == UNCHANGED <<notInstall, dist, step, i, err, calls, deferred, cmds, faults, entry, begin, ran, work, invoked>>

PhaseFailed ==
  /\ pc = "returned"
  /\ err # Nil
  /\ SetState("Failed")
  /\ pc' = "idle"
  /\ UNCHANGED <<conds, pi>>
  /\ LoopFrame

NextPhase ==
  /\ pc = "returned"
  /\ err = Nil
  /\ pi < Len(phaseFactory(dist))
  /\ pi' = pi + 1
  /\ pc' = "enter"
  /\ UNCHANGED <<state, seen, conds>>
  /\ LoopFrame

AllPhasesTrue == \A k \in 1..Len(phaseFactory(dist)) : IsTrue(conds, PhaseCondition(phaseFactory(dist)[k]))

ReconcileDone ==
  /\ pc = "returned"
  /\ err = Nil
  /\ pi = Len(phaseFactory(dist))
  /\ IF AllPhasesTrue
       THEN /\ SetState("Succeeded")
            /\ conds' = MarkTrue(conds, "Ready")
       ELSE UNCHANGED <<state, seen, conds>>
  /\ pc' = "idle"
  /\ UNCHANGED pi
  /\ LoopFrame

Next ==
  \/ StartReconcile
  \/ reconcilePing
  \/ reconcileBootstrap
  \/ reconcileRepository
  \/ reconcileBinaryService
  \/ reconcileContainerManager
  \/ reconcileProvisioning
  \/ PhaseFailed
  \/ NextPhase
  \/ ReconcileDone

Spec == Init /\ [][Next]_vars

\* reconciles keep being scheduled and a started step is carried out
LiveSpec == Spec /\ WF_vars(Next)

(***************************************************************************)
(* Deletion.  Once the host object has a deletion timestamp the reconciler *)
(* runs the deletion phase instead of the install phases.                  *)
(* reconcileDeletingBootstrap registers its deferred condition write, sets *)
(* the state Cleaning and runs its five clean-up operations; it has no     *)
(* test of its condition.                                                  *)
(***************************************************************************)
StartDelete ==
  /\ pc = "idle"
  /\ pc' = "denter"
  /\ err' = Nil
  /\ calls' = <<>>
  /\ UNCHANGED <<notInstall, dist, state, conds, pi, step, i, deferred, cmds, faults, entry, begin, ran, work, invoked, seen>>

DeleteFrame == UNCHANGED <<notInstall, dist, pi, i, cmds, begin, ran, work, invoked>>

DeleteEnter ==
  /\ pc = "denter"
  /\ deferred' = <<"mark">>
  /\ entry' = [state |-> state, conds |-> conds]
  /\ SetState("Cleaning")
  /\ pc' = "drun"
  /\ step' = 1
  /\ UNCHANGED <<conds, err, calls, faults>>
  /\ DeleteFrame

\* the clean-up operations with the first two exchanged
DeleteOpsSwapped == <<"ResetNetwork", "KubeadmReset", "RemoveFiles", "DaemonReload", "UninstallK3s">>

DeleteOps == <<"KubeadmReset", "ResetNetwork", "RemoveFiles", "DaemonReload", "UninstallK3s">>

DeleteBody ==
  /\ pc = "drun"
  /\ \/ /\ Called(DeleteOps[step], TRUE, "")
        /\ err' = Nil
        /\ IF step = Len(DeleteOps) THEN pc' = "ddefer" /\ step' = step
                                    ELSE pc' = "drun" /\ step' = step + 1
        /\ UNCHANGED faults
     \/ /\ MayFail
        /\ \E t \in ErrTexts : err' = <<t>> /\ Called(DeleteOps[step], FALSE, t)
        /\ faults' = faults + 1
        /\ pc' = "ddefer"
        /\ UNCHANGED step
  /\ UNCHANGED <<state, seen, conds, deferred, entry>>
  /\ DeleteFrame

DeleteDeferred ==
  /\ pc = "ddefer"
  /\ Head(deferred) = "mark"
  /\ conds' = IF err # Nil
                THEN MarkFalse(conds, "DeletingBootstrap", "ClearEnvironmentFailed", "Warning", err)
                ELSE MarkTrue(conds, "DeletingBootstrap")
  /\ deferred' = Tail(deferred)
  /\ pc' = "dreturned"
  /\ UNCHANGED <<state, seen, err, calls, step, faults, entry>>
  /\ DeleteFrame

reconcileDeletingBootstrap == DeleteEnter \/ DeleteBody \/ DeleteDeferred

\* the deletion phase returned: the owning controller may finalize, or the reconcile is repeated
DeleteDone ==
  /\ pc = "dreturned"
  /\ pc' = "idle"
  /\ UNCHANGED <<state, seen, conds, err, calls, step, faults, entry, deferred>>
  /\ DeleteFrame

NextDel ==
  \/ Next
  \/ StartDelete
  \/ reconcileDeletingBootstrap
  \/ DeleteDone

\* the host object may get a deletion timestamp at any time between two reconciles
DelSpec == Init /\ [][NextDel]_vars

(***************************************************************************)
(* The control-plane health pass: Workload.UpdateAgentConditions and       *)
(* aggregateFromMachinesToKCP.  Machines, their earlier conditions and the *)
(* listed nodes are inputs; the pass is modelled node by node.             *)
(***************************************************************************)
\* the state of the install reconciler, which the health pass leaves alone
ivars == <<dist, state, conds, pc, pi, step, i, err, calls, deferred, cmds, faults,
           entry, begin, ran, work, invoked, seen>>

\* what UpdateAgentConditions leaves alone
notHealth == <<ivars, evars, svars, pvars, avars, rvars, qvars>>

\* what updateManagedEtcdConditions leaves alone
notEtcd == <<ivars, hvars, svars, pvars, avars, rvars, qvars>>

\* one part of a condition message: a text and the names formatted into it
Msg(text, about) == [text |-> text, about |-> about]

TrueCond == [status |-> "True", reason |-> "", severity |-> "", message |-> <<>>]
FalseCond(reason, severity, message) ==
  [status |-> "False", reason |-> reason, severity |-> severity, message |-> message]
UnknownCond(reason, message) ==
  [status |-> "Unknown", reason |-> reason, severity |-> "", message |-> message]

\* conditions a machine may carry from an earlier pass or another controller
PriorConds ==
  { NoCond, TrueCond,
    FalseCond("Deleting", "Info", <<>>),
    FalseCond("PodFailed", "Warning", <<>>),
    FalseCond("PodFailed", "Error", <<Msg("Missing node", {})>>),
    UnknownCond("PodInspectionFailed", <<Msg("Node is unreachable", {})>>) }

NodeRecs == [name : NodeNames, unreachable : BOOLEAN]

\* node lists: every node of the workload cluster appears at most once
NodeLists ==
  {s \in UNION {[1..k -> NodeRecs] : k \in 0..Cardinality(NodeNames)} :
     \A a, b \in DOMAIN s : a # b => s[a].name # s[b].name}

HealthInit ==
  /\ InstallInit
  /\ RolloutOff
  /\ ConfirmOff
  /\ SelectOff
  /\ PipeOff
  /\ ActionOff
  /\ dist = KUBERNETES
  /\ machines \in [MachineNames -> [nodeRef : NodeNames \cup {"none"}, deleting : BOOLEAN, agent : PriorConds]]
  /\ nodes \in NodeLists
  /\ kcp \in {NoCond, TrueCond}
  /\ hpc = "start"
  /\ ni = 0
  /\ kcpErrors = <<>>
  /\ got = <<>>
  /\ etcd \in [MachineNames -> {NoCond, TrueCond}]
  /\ kcpEtcd = NoCond
  /\ epc = "start"
  /\ ei = 0
  /\ ecalls = <<>>

hasProvisioningMachine(ms) == \E m \in DOMAIN ms : ms[m].nodeRef = "none"

nodeHasUnreachableTaint(node) == node.unreachable

\* the machines whose NodeRef names the node; the loop over the machine map takes the first it meets
MachinesOf(node) == {m \in MachineNames : machines[m].nodeRef = node.name}

SetAgent(m, c) == machines' = [machines EXCEPT ![m].agent = c]

\* getControlPlaneNodes fails: every machine and the KCP are marked Unknown, return
\* the cluster condition is left as it was
ListNodesFailedKeepsKCP ==
  /\ hpc = "start"
  /\ epc = "start"
  /\ machines' = [m \in MachineNames |->
                    [machines[m] EXCEPT !.agent =
                       UnknownCond("PodInspectionFailed",
                                   <<Msg("Failed to get the node which is hosting this component", {})>>)]]
  /\ hpc' = "list-failed"
  /\ UNCHANGED <<nodes, kcp, ni, kcpErrors, got, notHealth>>

ListNodesFailed ==
  /\ hpc = "start"
  /\ epc = "start"
  /\ machines' = [m \in MachineNames |->
                    [machines[m] EXCEPT !.agent =
                       UnknownCond("PodInspectionFailed",
                                   <<Msg("Failed to get the node which is hosting this component", {})>>)]]
  /\ kcp' = UnknownCond("ControlPlaneComponentsInspectionFailed",
                        <<Msg("Failed to list nodes which are hosting control plane components", {})>>)
  /\ hpc' = "list-failed"
  /\ UNCHANGED <<nodes, ni, kcpErrors, got, notHealth>>

ListNodesOK ==
  /\ hpc = "start"
  /\ epc = "start"
  /\ hpc' = "nodes"
  /\ ni' = 1
  /\ kcpErrors' = <<>>
  /\ UNCHANGED <<machines, nodes, kcp, got, notHealth>>

\* the node loop is at a node
AtNode == hpc = "nodes" /\ ni <= Len(nodes)

\* no machine for the node: an error at KCP level unless a machine is still provisioning
NodeWithoutMachine ==
  /\ AtNode
  /\ MachinesOf(nodes[ni]) = {}
  /\ kcpErrors' = IF hasProvisioningMachine(machines)
                    THEN kcpErrors
                    ELSE Append(kcpErrors,
                                Msg("Control plane node does not have a corresponding machine", {nodes[ni].name}))
  /\ ni' = ni + 1
  /\ UNCHANGED <<machines, nodes, kcp, hpc, got, notHealth>>

NodeMachineDeleting ==
  /\ AtNode
  /\ \E m \in MachinesOf(nodes[ni]) :
       /\ machines[m].deleting
       /\ SetAgent(m, FalseCond("Deleting", "Info", <<>>))
  /\ ni' = ni + 1
  /\ UNCHANGED <<nodes, kcp, hpc, kcpErrors, got, notHealth>>

NodeUnreachable ==
  /\ AtNode
  /\ \E m \in MachinesOf(nodes[ni]) :
       /\ ~machines[m].deleting
       /\ nodeHasUnreachableTaint(nodes[ni])
       /\ SetAgent(m, UnknownCond("PodInspectionFailed", <<Msg("Node is unreachable", {})>>))
  /\ ni' = ni + 1
  /\ UNCHANGED <<nodes, kcp, hpc, kcpErrors, got, notHealth>>

\* the machine of the node is neither deleting nor behind an unreachable node
Inspectable(m) == ~machines[m].deleting /\ ~nodeHasUnreachableTaint(nodes[ni])

\* w.Client.Get of the node fails: the condition is marked and the function returns
NodeGetFailed ==
  /\ AtNode
  /\ \E m \in MachinesOf(nodes[ni]) :
       /\ Inspectable(m)
       /\ \/ SetAgent(m, FalseCond("PodMissing", "Error", <<Msg("Node is missing", {nodes[ni].name})>>))
          \/ SetAgent(m, UnknownCond("PodInspectionFailed", <<Msg("Failed to get node status", {})>>))
  /\ hpc' = "returned-early"
  /\ got' = Append(got, "failed")
  /\ UNCHANGED <<nodes, kcp, ni, kcpErrors, notHealth>>

\* a node without Ready=True makes the machine Unknown
NodeGetOKMarksNotReady ==
  /\ AtNode
  /\ \E m \in MachinesOf(nodes[ni]) :
       /\ Inspectable(m)
       /\ \E ready \in BOOLEAN :
            /\ got' = Append(got, IF ready THEN "ready" ELSE "not-ready")
            /\ IF ready THEN SetAgent(m, TrueCond)
                        ELSE SetAgent(m, UnknownCond("PodInspectionFailed", <<Msg("Node is not ready", {})>>))
  /\ ni' = ni + 1
  /\ UNCHANGED <<nodes, kcp, hpc, kcpErrors, notHealth>>

\* the node is retrieved: the machine is marked True when the node has Ready=True
NodeGetOK ==
  /\ AtNode
  /\ \E m \in MachinesOf(nodes[ni]) :
       /\ Inspectable(m)
       /\ \E ready \in BOOLEAN :
            /\ got' = Append(got, IF ready THEN "ready" ELSE "not-ready")
            /\ IF ready THEN SetAgent(m, TrueCond) ELSE UNCHANGED machines
  /\ ni' = ni + 1
  /\ UNCHANGED <<nodes, kcp, hpc, kcpErrors, notHealth>>

ListedNames == {nodes[k].name : k \in 1..Len(nodes)}

\* after the node loop: provisioned machines whose node is not listed are marked failed
MissingNodes ==
  /\ hpc = "nodes"
  /\ ni > Len(nodes)
  /\ machines' = [m \in MachineNames |->
                    IF machines[m].nodeRef # "none" /\ machines[m].nodeRef \notin ListedNames
                      THEN [machines[m] EXCEPT !.agent = FalseCond("PodFailed", "Error", <<Msg("Missing node", {})>>)]
                      ELSE machines[m]]
  /\ hpc' = "aggregate"
  /\ UNCHANGED <<nodes, kcp, ni, kcpErrors, got, notHealth>>

\* machines by what their condition reports
MachinesWith(ms, status, severity) ==
  {m \in DOMAIN ms : ms[m].agent.status = status /\ (status = "False" => ms[m].agent.severity = severity)}

\* the test for warnings made before the test for errors
aggregateWarningsFirst(ms, errs, old) ==
  LET withErrors == MachinesWith(ms, "False", "Error")
      allErrs == IF withErrors # {}
                   THEN Append(errs, Msg("Following machines are reporting control plane errors", withErrors))
                   ELSE errs
  IN IF MachinesWith(ms, "False", "Warning") # {}
       THEN FalseCond("ControlPlaneComponentsUnhealthy", "Warning",
                      <<Msg("Following machines are reporting control plane warnings", MachinesWith(ms, "False", "Warning"))>>)
     ELSE IF Len(allErrs) > 0
       THEN FalseCond("ControlPlaneComponentsUnhealthy", "Error", allErrs)
     ELSE IF MachinesWith(ms, "True", "") # {}
       THEN TrueCond
     ELSE IF MachinesWith(ms, "Unknown", "") # {}
       THEN UnknownCond("ControlPlaneComponentsUnknown",
                        <<Msg("Following machines are reporting unknown control plane status", MachinesWith(ms, "Unknown", ""))>>)
     ELSE old

\* aggregateFromMachinesToKCP: the new KCP condition; the third test repeats
\* the test for warnings, so machines reporting info are never looked at
aggregateFromMachinesToKCP(ms, errs, old) ==
  LET withErrors == MachinesWith(ms, "False", "Error")
      withWarnings == MachinesWith(ms, "False", "Warning")
      withInfo == MachinesWith(ms, "False", "Info")
      withTrue == MachinesWith(ms, "True", "")
      withUnknown == MachinesWith(ms, "Unknown", "")
      allErrs == IF withErrors # {}
                   THEN Append(errs, Msg("Following machines are reporting control plane errors", withErrors))
                   ELSE errs
  IN IF Len(allErrs) > 0
       THEN FalseCond("ControlPlaneComponentsUnhealthy", "Error", allErrs)
     ELSE IF withWarnings # {}
       THEN FalseCond("ControlPlaneComponentsUnhealthy", "Warning",
                      <<Msg("Following machines are reporting control plane warnings", withWarnings)>>)
     ELSE IF withWarnings # {}
       THEN FalseCond("ControlPlaneComponentsUnhealthy", "Warning",
                      <<Msg("Following machines are reporting control plane info", withInfo)>>)
     ELSE IF withTrue # {}
       THEN TrueCond
     ELSE IF withUnknown # {}
       THEN UnknownCond("ControlPlaneComponentsUnknown",
                        <<Msg("Following machines are reporting unknown control plane status", withUnknown)>>)
     ELSE old

Aggregate ==
  /\ hpc = "aggregate"
  /\ kcp' = aggregateFromMachinesToKCP(machines, kcpErrors, kcp)
  /\ hpc' = "done"
  /\ UNCHANGED <<machines, nodes, ni, kcpErrors, got, notHealth>>

UpdateAgentConditions ==
  \/ ListNodesFailed
  \/ ListNodesOK
  \/ NodeWithoutMachine
  \/ NodeMachineDeleting
  \/ NodeUnreachable
  \/ NodeGetFailed
  \/ NodeGetOK
  \/ MissingNodes
  \/ Aggregate

(***************************************************************************)
(* The etcd member health pass: Workload.UpdateEtcdConditions, which       *)
(* calls updateManagedEtcdConditions.  The controller calls the two passes *)
(* one after the other; each is explored from the same inputs.             *)
(***************************************************************************)
Request(op, ok) == [op |-> op, ok |-> ok]

SetEtcd(m, c) == etcd' = [etcd EXCEPT ![m] = c]

\* getControlPlaneNodes fails: the KCP and every machine are marked Unknown, return
EtcdListNodesFailed ==
  /\ epc = "start"
  /\ hpc = "start"
  /\ ecalls' = Append(ecalls, Request("getControlPlaneNodes", FALSE))
  /\ kcpEtcd' = UnknownCond("EtcdClusterInspectionFailed",
                            <<Msg("Failed to list nodes which are hosting the etcd members", {})>>)
  /\ etcd' = [m \in MachineNames |->
                UnknownCond("EtcdMemberInspectionFailed",
                            <<Msg("Failed to get the node which is hosting the etcd member", {})>>)]
  /\ epc' = "list-failed"
  /\ UNCHANGED <<ei, notEtcd>>

EtcdListNodesOK ==
  /\ epc = "start"
  /\ hpc = "start"
  /\ ecalls' = Append(ecalls, Request("getControlPlaneNodes", TRUE))
  /\ epc' = "nodes"
  /\ ei' = 1
  /\ UNCHANGED <<etcd, kcpEtcd, notEtcd>>

EtcdAtNode == epc = "nodes" /\ ei <= Len(nodes)

\* the machines whose NodeRef names the node; the loop keeps the last one the map iteration meets
EtcdMachinesOf(node) == {m \in MachineNames : machines[m].nodeRef = node.name}

\* no machine for the node: next node, with or without a provisioning machine
EtcdNodeWithoutMachine ==
  /\ EtcdAtNode
  /\ EtcdMachinesOf(nodes[ei]) = {}
  /\ ei' = ei + 1
  /\ UNCHANGED <<etcd, kcpEtcd, epc, ecalls, notEtcd>>

EtcdMachineDeleting ==
  /\ EtcdAtNode
  /\ \E m \in EtcdMachinesOf(nodes[ei]) :
       /\ machines[m].deleting
       /\ SetEtcd(m, FalseCond("Deleting", "Info", <<>>))
  /\ ei' = ei + 1
  /\ UNCHANGED <<kcpEtcd, epc, ecalls, notEtcd>>

\* a machine that is not being deleted is marked True; no request is made about its member
EtcdMachineTrue ==
  /\ EtcdAtNode
  /\ \E m \in EtcdMachinesOf(nodes[ei]) :
       /\ ~machines[m].deleting
       /\ SetEtcd(m, TrueCond)
  /\ ei' = ei + 1
  /\ UNCHANGED <<kcpEtcd, epc, ecalls, notEtcd>>

EtcdReturn ==
  /\ epc = "nodes"
  /\ ei > Len(nodes)
  /\ epc' = "done"
  /\ UNCHANGED <<etcd, kcpEtcd, ei, ecalls, notEtcd>>

updateManagedEtcdConditions ==
  \/ EtcdListNodesFailed
  \/ EtcdListNodesOK
  \/ EtcdNodeWithoutMachine
  \/ EtcdMachineDeleting
  \/ EtcdMachineTrue
  \/ EtcdReturn

UpdateEtcdConditions == updateManagedEtcdConditions

HealthNext == UpdateAgentConditions \/ UpdateEtcdConditions

HealthSpec == HealthInit /\ [][HealthNext]_vars

(***************************************************************************)
(* Deletion-candidate selection of ControlPlane.  The functions are pure;  *)
(* the control plane, its failure domains and the input set are drawn by   *)
(* SelectInit and each action applies one function.                        *)
(***************************************************************************)
\* what the selection functions leave alone
notSelect == <<ivars, hvars, evars, pvars, avars, rvars, qvars>>

\* Machine.Spec.FailureDomain: "nil" is the nil pointer
FailureDomainIds == {"fd1", "fd2"}

\* Machine.CreationTimestamp
MaxAge == 2

\* order of machine names, which sorting by creation timestamp falls back on
NameRank == [a |-> 1, b |-> 2, c |-> 3]

SelectInit ==
  /\ InstallInit
  /\ RolloutOff
  /\ ConfirmOff
  /\ dist = KUBERNETES
  /\ HealthOff
  /\ PipeOff
  /\ ActionOff
  /\ cpMachines \in [CPMachineNames -> [fd : FailureDomainIds \cup {"nil"}, created : 1..MaxAge, annotated : BOOLEAN]]
  /\ cpDomains \in SUBSET FailureDomainIds
  /\ cpInput \in SUBSET CPMachineNames
  /\ cpOut = [fn |-> "none", machines |-> {}, err |-> FALSE]

\* collections.InFailureDomains(ids...): a nil id matches a nil failure domain
InFailureDomains(ids, m) == cpMachines[m].fd \in ids

\* a earlier than b when sorted by creation timestamp, then by name
Before(a, b) ==
  \/ cpMachines[a].created < cpMachines[b].created
  \/ cpMachines[a].created = cpMachines[b].created /\ NameRank[a] < NameRank[b]

\* Machines.Oldest(): the set is empty (nil) or holds the one oldest machine
Oldest(ms) == {m \in ms : \A x \in ms \ {m} : Before(m, x)}

\* failuredomains.PickMost: the defined domains that hold an input machine and,
\* among those, the most machines of the control plane; equal counts are
\* ordered by an unstable sort over a map
PickMost(ms) ==
  LET count(d) == Cardinality({m \in CPMachineNames : cpMachines[m].fd = d})
      held == {d \in cpDomains : \E m \in ms : cpMachines[m].fd = d}
  IN IF held = {} THEN {"nil"}
     ELSE {d \in held : \A e \in held : count(e) <= count(d)}

\* the domains FailureDomainWithMostMachines may return for the input
FailureDomainWithMostMachines(ms) ==
  LET notInFailureDomains == {m \in ms : ~InFailureDomains(cpDomains, m)}
  IN IF notInFailureDomains # {}
       THEN {cpMachines[m].fd : m \in Oldest(notInFailureDomains)}
       ELSE PickMost(ms)

\* the oldest of all the input machines, whatever their failure domain
MachineOldestOfAll ==
  /\ cpOut.fn = "none"
  /\ cpOut' = [fn |-> "MachineInFailureDomainWithMostMachines",
               machines |-> Oldest(cpInput), err |-> Oldest(cpInput) = {}]
  /\ UNCHANGED <<cpMachines, cpDomains, cpInput, notSelect>>

MachineInFailureDomainWithMostMachines ==
  /\ cpOut.fn = "none"
  /\ \E fd \in FailureDomainWithMostMachines(cpInput) :
       LET machinesInFailureDomain == {m \in cpInput : InFailureDomains({fd}, m)}
           machineToMark == Oldest(machinesInFailureDomain)
       IN cpOut' = [fn |-> "MachineInFailureDomainWithMostMachines",
                    machines |-> machineToMark, err |-> machineToMark = {}]
  /\ UNCHANGED <<cpMachines, cpDomains, cpInput, notSelect>>

MachineWithDeleteAnnotation ==
  /\ cpOut.fn = "none"
  /\ cpOut' = [fn |-> "MachineWithDeleteAnnotation",
               machines |-> {m \in cpInput : cpMachines[m].annotated}, err |-> FALSE]
  /\ UNCHANGED <<cpMachines, cpDomains, cpInput, notSelect>>

SelectNext == MachineInFailureDomainWithMostMachines \/ MachineWithDeleteAnnotation

SelectSpec == SelectInit /\ [][SelectNext]_vars

(***************************************************************************)
(* Pipelines, modules and tasks.  The task lists are those the modules     *)
(* build in Init; the engine that runs them (Pipeline.Start, the module    *)
(* and task runners) follows further down.                                 *)
(***************************************************************************)
\* what the pipeline engine leaves alone
notPipe == <<ivars, hvars, evars, svars, avars, rvars, qvars>>

\* hosts in inventory order
Hosts == <<"h1", "h2">>

Roles == {"master", "worker", "registry"}

\* runtime.GetHostsByRole / GetAllHosts: role K8s is master and worker hosts
HasRole(h, role) ==
  CASE role = "all" -> inv[h] # "absent"
    [] role = "k8s" -> inv[h] \in {"master", "worker"}
    [] OTHER -> inv[h] = role

GetHostsByRole(role) == SelectSeq(Hosts, LAMBDA h : HasRole(h, role))

\* one member of a prepare.PrepareCollection
Pre(pred, not) == [pred |-> pred, not |-> not]

RemoteTask(name, hosts, prepare, action, parallel, retry) ==
  [name |-> name, hosts |-> hosts, prepare |-> prepare, action |-> action,
   parallel |-> parallel, retry |-> retry]

NotInCluster == Pre("NodeInCluster", TRUE)

InstallDocker ==
  << RemoteTask("SyncDockerBinaries", "k8s", <<NotInCluster, Pre("DockerExist", TRUE)>>,
                "SyncDockerBinaries", TRUE, 2),
     RemoteTask("GenerateContainerdService", "k8s", <<NotInCluster, Pre("ContainerdExist", TRUE)>>,
                "Template", TRUE, 0),
     RemoteTask("GenerateDockerService", "k8s", <<NotInCluster, Pre("DockerExist", TRUE)>>,
                "Template", TRUE, 0),
     RemoteTask("GenerateDockerConfig", "k8s", <<NotInCluster, Pre("DockerExist", TRUE)>>,
                "Template", TRUE, 0),
     RemoteTask("EnableContainerd", "k8s", <<NotInCluster, Pre("ContainerdExist", TRUE)>>,
                "EnableContainerdForDocker", TRUE, 0),
     RemoteTask("EnableDocker", "k8s", <<NotInCluster, Pre("DockerExist", TRUE)>>,
                "EnableDocker", TRUE, 0),
     RemoteTask("Login PrivateRegistry", "all",
                <<NotInCluster, Pre("DockerExist", FALSE), Pre("PrivateRegistryAuth", FALSE)>>,
                "DockerLoginRegistry", TRUE, 0),
     RemoteTask("SyncDockerBuildxBinaries", "k8s", <<Pre("WithBuildxPlugin", FALSE)>>,
                "SyncDockerBuildxPluginBinaries", TRUE, 2) >>

\* without remote mirrors in the declaration
InstallContainerd ==
  << RemoteTask("SyncContainerd", "k8s", <<NotInCluster, Pre("ContainerdExist", TRUE)>>,
                "SyncContainerd", TRUE, 2),
     RemoteTask("GenerateContainerdService", "k8s", <<NotInCluster, Pre("ContainerdExist", TRUE)>>,
                "Template", TRUE, 0),
     RemoteTask("GenerateContainerdConfig", "k8s", <<NotInCluster, Pre("ContainerdExist", TRUE)>>,
                "Template", TRUE, 0),
     RemoteTask("EnableContainerd", "k8s", <<NotInCluster, Pre("ContainerdExist", TRUE)>>,
                "EnableContainerd", TRUE, 0),
     RemoteTask("SyncCrictlBinaries", "k8s", <<NotInCluster, Pre("CrictlExist", TRUE)>>,
                "SyncCrictlBinaries", TRUE, 2),
     RemoteTask("GenerateCrictlConfig", "k8s", <<NotInCluster, Pre("CrictlExist", FALSE)>>,
                "Template", TRUE, 0) >>

InstallCriDockerd ==
  << RemoteTask("SyncCriDockerdBinaries", "k8s", <<Pre("CriDockerdExist", TRUE), Pre("AtLeastV124", FALSE)>>,
                "SyncCriDockerdBinaries", TRUE, 2),
     RemoteTask("GenerateCriDockerdService", "k8s", <<Pre("CriDockerdExist", TRUE), Pre("AtLeastV124", FALSE)>>,
                "Template", TRUE, 0),
     RemoteTask("EnableCriDockerd", "k8s", <<Pre("CriDockerdExist", TRUE), Pre("AtLeastV124", FALSE)>>,
                "EnableCriDockerd", TRUE, 0),
     RemoteTask("SyncCrictlBinaries", "k8s", <<Pre("CrictlExist", TRUE), Pre("AtLeastV124", FALSE)>>,
                "SyncCrictlBinaries", TRUE, 2),
     RemoteTask("GenerateCrictlConfig", "k8s", <<Pre("AtLeastV124", FALSE)>>,
                "Template", TRUE, 0) >>

MigrateWCri ==
  << RemoteTask("MigrateToDocker", "worker", <<Pre("OnlyWorker", FALSE)>>, "MigrateSelfNodeCri", FALSE, 0) >>

MigrateMCri ==
  << RemoteTask("MigrateMasterToDocker", "master", <<Pre("IsMaster", FALSE)>>, "MigrateSelfNodeCri", FALSE, 0) >>

MigrateACri ==
  << RemoteTask("MigrateMasterToDocker", "k8s", <<>>, "MigrateSelfNodeCri", FALSE, 0) >>

\* the node joins the cluster; the module is not among the sources
JoinNodes ==
  << RemoteTask("JoinNode", "k8s", <<NotInCluster>>, "JoinNode", TRUE, 0) >>

\* the k8e and k3s modules that copy the binaries and join the node; their
\* Init is not among the sources, the actions of k8e are
InstallKubeBinaries ==
  << RemoteTask("SyncKubeBinary", "k8s", <<NotInCluster>>, "SyncKubeBinary", TRUE, 2) >>

LightJoinNodes ==
  << RemoteTask("GenerateK8eServiceEnv", "k8s", <<NotInCluster>>, "GenerateK8eServiceEnv", TRUE, 0),
     RemoteTask("JoinNode", "k8s", <<NotInCluster>>, "JoinNode", TRUE, 0) >>

\* Module.Init: the tasks of a module; modules whose Init is not among the sources have none
ModuleTasks(m) ==
  CASE m = "InstallContainerModule" ->
         (IF conf.containerManager = "docker" THEN InstallDocker ELSE InstallContainerd)
    [] m = "InstallCriDockerdModule" -> InstallCriDockerd
    [] m = "CriMigrateModule" ->
         (IF conf.role = "worker" THEN MigrateWCri
          ELSE IF conf.role = "master" THEN MigrateMCri
          ELSE MigrateACri)
    [] m = "JoinNodesModule" -> JoinNodes
    [] m \in {"K3sInstallKubeBinariesModule", "K8eInstallKubeBinariesModule"} -> InstallKubeBinaries
    [] m \in {"K3sJoinNodesModule", "K8eJoinNodesModule"} -> LightJoinNodes
    [] OTHER -> <<>>

\* every pipeline gives the offline repository module the Skip field of the add-nodes pipelines
IsSkipAsAddNodes(m) ==
  CASE m = "UnArchiveModule" -> conf.artifact = ""
    [] m = "RepositoryModule" -> conf.artifact = "" \/ ~conf.installPackages
    [] m = "RepositoryOnlineModule" -> ~(conf.artifact = "")
    [] m = "ConfigureOSModule" -> conf.skipConfigureOS
    [] m = "InstallCriDockerdModule" -> conf.containerManager # "docker"
    [] OTHER -> FALSE

\* the Skip field each pipeline gives its modules
IsSkip(m) ==
  CASE m = "UnArchiveModule" -> conf.artifact = ""
    [] m = "RepositoryModule" ->
         (IF pipe = "InitDependencies" THEN conf.artifact = ""
          ELSE conf.artifact = "" \/ ~conf.installPackages)
    [] m = "RepositoryOnlineModule" -> ~(conf.artifact = "")
    [] m = "ConfigureOSModule" -> conf.skipConfigureOS
    [] m = "InstallCriDockerdModule" -> conf.containerManager # "docker"
    [] OTHER -> FALSE

\* host.GetArch()
GetArch(h) == IF h = "h1" THEN "amd64" ELSE "arm64"

\* common.KubeBinaries + "-" + runtime.RemoteHost().GetArch()
KubeBinariesKey(h) == "KubeBinaries-" \o GetArch(h)

\* a key of the cache of host h
HostCacheKey(h, k) == h \o "/" \o k

\* runtime.GetAllHosts()
AllHosts == {h \in HostNames : HasRole(h, "all")}

\* cache keys a module leaves behind: the binaries modules one manifest per
\* architecture, the precheck module its result on every host, the status
\* modules the cluster status
ModulePublishes(m) ==
  CASE m \in {"NodeBinariesModule", "K3sNodeBinariesModule", "K8eNodeBinariesModule"} ->
         {KubeBinariesKey(h) : h \in AllHosts}
    [] m = "NodePreCheckModule" -> {HostCacheKey(h, "NodePreCheck") : h \in AllHosts}
    [] m \in {"StatusModule", "K3sStatusModule", "K8eStatusModule"} -> {"ClusterStatus"}
    [] OTHER -> {}

\* pipeline cache keys an action reads on host h
ActionReads(a, h) ==
  CASE a \in {"SyncDockerBinaries", "SyncDockerBuildxPluginBinaries", "SyncCriDockerdBinaries",
              "SyncKubeBinary"} -> {KubeBinariesKey(h)}
    [] a \in {"GenerateK8eServiceEnv", "SaveKubeConfig"} -> {"ClusterStatus"}
    [] OTHER -> {}

\* cache keys the local task of a module reads: InstallationConfirm reads the
\* precheck result of every host
LocalReads(m) ==
  IF m = "InstallConfirmModule"
    THEN {HostCacheKey(h, "NodePreCheck") : h \in AllHosts}
    ELSE {}

\* what an action that succeeded leaves on the host
ActionInstalls(a) ==
  CASE a = "EnableDocker" -> {"docker"}
    [] a \in {"EnableContainerdForDocker", "EnableContainerd"} -> {"containerd"}
    [] a = "EnableCriDockerd" -> {"cri-dockerd"}
    [] a = "SyncCrictlBinaries" -> {"crictl"}
    [] a = "JoinNode" -> {"inCluster"}
    [] OTHER -> {}

\* one prepare predicate on a host
PrepareHolds(p, h) ==
  LET v == CASE p.pred = "NodeInCluster" -> "inCluster" \in facts[h]
             [] p.pred = "DockerExist" -> "docker" \in facts[h]
             [] p.pred = "ContainerdExist" -> "containerd" \in facts[h]
             [] p.pred = "CriDockerdExist" -> "cri-dockerd" \in facts[h]
             [] p.pred = "CrictlExist" -> "crictl" \in facts[h]
             [] p.pred = "AtLeastV124" -> conf.atLeastV124
             [] p.pred = "WithBuildxPlugin" -> conf.buildx
             [] p.pred = "PrivateRegistryAuth" -> FALSE
             [] p.pred = "OnlyWorker" -> inv[h] = "worker"
             [] p.pred = "IsMaster" -> inv[h] = "master"
  IN IF p.not THEN ~v ELSE v

\* PrepareCollection: the logical AND of its members
Prepare(t, h) == \A k \in DOMAIN t.prepare : PrepareHolds(t.prepare[k], h)

\* GenerateHosts indexes the first master when the endpoint has no address
GenerateHostsPanics == conf.address = "" /\ Len(GetHostsByRole("master")) = 0

\* the confirmation comes before the precheck
ModulesConfirmFirst(p) ==
  CASE p = "AddNodes" ->
         <<"InstallConfirmModule", "NodePreCheckModule", "UnArchiveModule", "NodeBinariesModule",
           "ConfigureOSModule", "StatusModule", "InstallContainerModule",
           "InstallCriDockerdModule", "JoinNodesModule">>
    [] p = "K3sAddNodes" ->
         <<"UnArchiveModule", "RepositoryModule", "K3sNodeBinariesModule", "ConfigureOSModule",
           "K3sStatusModule", "K3sInstallKubeBinariesModule", "K3sJoinNodesModule">>
    [] p = "K8eAddNodes" ->
         <<"UnArchiveModule", "RepositoryModule", "K8eNodeBinariesModule", "ConfigureOSModule",
           "K8eStatusModule", "K8eInstallKubeBinariesModule", "K8eJoinNodesModule">>
    [] p = "InitDependencies" ->
         <<"GreetingsModule", "UnArchiveModule", "RepositoryModule", "RepositoryOnlineModule",
           "ChownWorkDirModule", "CustomScriptsModule">>
    [] p = "InitRegistry" -> <<"UnArchiveModule", "ConfigureOSModule">>
    [] p = "MigrateCri" -> <<"CriMigrateModule">>
    [] OTHER -> <<>>

\* the modules of a pipeline that have tasks here or that use the caches, in
\* declared order
Modules(p) ==
  CASE p = "AddNodes" ->
         <<"NodePreCheckModule", "InstallConfirmModule", "UnArchiveModule", "NodeBinariesModule",
           "ConfigureOSModule", "StatusModule", "InstallContainerModule",
           "InstallCriDockerdModule", "JoinNodesModule">>
    [] p = "K3sAddNodes" ->
         <<"UnArchiveModule", "RepositoryModule", "K3sNodeBinariesModule", "ConfigureOSModule",
           "K3sStatusModule", "K3sInstallKubeBinariesModule", "K3sJoinNodesModule">>
    [] p = "K8eAddNodes" ->
         <<"UnArchiveModule", "RepositoryModule", "K8eNodeBinariesModule", "ConfigureOSModule",
           "K8eStatusModule", "K8eInstallKubeBinariesModule", "K8eJoinNodesModule">>
    [] p = "InitDependencies" ->
         <<"GreetingsModule", "UnArchiveModule", "RepositoryModule", "RepositoryOnlineModule",
           "ChownWorkDirModule", "CustomScriptsModule">>
    [] p = "InitRegistry" -> <<"UnArchiveModule", "ConfigureOSModule">>
    [] p = "MigrateCri" -> <<"CriMigrateModule">>
    [] OTHER -> <<>>

(***************************************************************************)
(* The engine: Pipeline.Start, the module runner and the task runner, as   *)
(* the specification describes them (sections 4.2 to 4.4); their code is   *)
(* not among the sources.  Entry functions and task data are.              *)
(***************************************************************************)
\* a pipeline is started at most this many times on the same hosts
MaxRuns == 2

PipeConfs(p) ==
  CASE p = "AddNodes" ->
         {[DefaultConf EXCEPT !.containerManager = c, !.atLeastV124 = v, !.buildx = b] :
            c \in {"docker", "containerd"}, v \in BOOLEAN, b \in BOOLEAN}
    [] p = "InitRegistry" ->
         {[DefaultConf EXCEPT !.artifact = a, !.address = d, !.skipConfigureOS = k] :
            a \in {"", "artifact.tgz"}, d \in {"", "lb"}, k \in BOOLEAN}
    [] p = "MigrateCri" ->
         {[DefaultConf EXCEPT !.role = r] : r \in {"worker", "master", "all"}}
    [] p \in {"K3sAddNodes", "K8eAddNodes", "InitDependencies"} ->
         {[DefaultConf EXCEPT !.artifact = a, !.installPackages = ip] :
            a \in {"", "artifact.tgz"}, ip \in BOOLEAN}

PipeInit ==
  /\ InstallInit
  /\ RolloutOff
  /\ ConfirmOff
  /\ dist = KUBERNETES
  /\ HealthOff
  /\ SelectOff
  /\ ActionOff
  /\ pipe \in {"AddNodes", "K3sAddNodes", "K8eAddNodes", "InitDependencies", "InitRegistry",
               "MigrateCri"}
  /\ conf \in PipeConfs(pipe)
  /\ inv \in [HostNames -> Roles \cup {"absent"}]
  /\ facts = [h \in HostNames |-> {}]
  /\ ppc = "start"
  /\ mi = 0
  /\ ti = 0
  /\ hs = [h \in HostNames |-> "idle"]
  /\ att = [h \in HostNames |-> 0]
  /\ started = <<>>
  /\ rcmds = {}
  /\ pcache = {}
  /\ trace = <<>>
  /\ pres = "none"
  /\ pfaults = 0
  /\ runs = 0

cmod == Modules(pipe)[mi]

ctask == ModuleTasks(cmod)[ti]

Outcome(m, o) == [module |-> m, outcome |-> o]

\* InitRegistry stops the process when the inventory has no registry host;
\* the other entry functions start the pipeline
PipelineStart ==
  /\ ppc = "start"
  /\ runs' = runs + 1
  /\ IF pipe = "InitRegistry" /\ Len(GetHostsByRole("registry")) <= 0
       THEN /\ pres' = "fatal"
            /\ ppc' = "done"
            /\ mi' = mi
       ELSE /\ pres' = pres
            /\ ppc' = "module"
            /\ mi' = 1
  /\ UNCHANGED <<pipe, inv, conf, facts, ti, hs, att, started, rcmds, pcache, trace, pfaults, notPipe>>

AtModule == ppc = "module" /\ mi <= Len(Modules(pipe))

\* the module runs although its skip predicate holds
ModuleSkipIgnored ==
  /\ AtModule
  /\ IsSkip(cmod)
  /\ ppc' = "task"
  /\ ti' = 1
  /\ UNCHANGED <<pipe, inv, conf, facts, mi, hs, att, started, rcmds, pcache, trace, pres, pfaults,
                 runs, notPipe>>

ModuleSkip ==
  /\ AtModule
  /\ IsSkip(cmod)
  /\ trace' = Append(trace, Outcome(cmod, "skipped"))
  /\ mi' = mi + 1
  /\ UNCHANGED <<pipe, inv, conf, facts, ppc, ti, hs, att, started, rcmds, pcache, pres, pfaults,
                 runs, notPipe>>

\* Init of the module; ConfigureOSModule renders its templates with GenerateHosts
ModuleInit ==
  /\ AtModule
  /\ ~IsSkip(cmod)
  /\ IF cmod = "ConfigureOSModule" /\ GenerateHostsPanics
       THEN /\ pres' = "panic"
            /\ ppc' = "done"
            /\ trace' = Append(trace, Outcome(cmod, "panic"))
            /\ ti' = ti
       ELSE /\ ppc' = "task"
            /\ ti' = 1
            /\ UNCHANGED <<pres, trace>>
  /\ UNCHANGED <<pipe, inv, conf, facts, mi, hs, att, started, rcmds, pcache, pfaults, runs, notPipe>>

\* step 1 of the task: select the hosts
TaskBegin ==
  /\ ppc = "task"
  /\ ti <= Len(ModuleTasks(cmod))
  /\ hs' = [h \in HostNames |-> IF HasRole(h, ctask.hosts) THEN "selected" ELSE "idle"]
  /\ att' = [h \in HostNames |-> 0]
  /\ started' = <<>>
  /\ ppc' = "hosts"
  /\ UNCHANGED <<pipe, inv, conf, facts, mi, ti, rcmds, pcache, trace, pres, pfaults, runs, notPipe>>

Finished(h) == hs[h] \in {"idle", "ok", "skipped", "failed"}

HostIndex(h) == CHOOSE k \in DOMAIN Hosts : Hosts[k] = h

\* every host may be dispatched at any time, whatever the parallelism flag
CanDispatchAlways(h) == TRUE

\* in sequential mode a host waits until the hosts before it are done
CanDispatch(h) ==
  \/ ctask.parallel
  \/ \A g \in HostNames : HostIndex(g) < HostIndex(h) => Finished(g)

\* step 2: the prepare predicate says skip
HostSkip(h) ==
  /\ ppc = "hosts"
  /\ hs[h] = "selected"
  /\ CanDispatch(h)
  /\ ~Prepare(ctask, h)
  /\ hs' = [hs EXCEPT ![h] = "skipped"]
  /\ UNCHANGED <<pipe, inv, conf, facts, ppc, mi, ti, att, started, rcmds, pcache, trace, pres,
                 pfaults, runs, notPipe>>

\* step 3: the action starts on the host, for the first time or again
AttemptStart(h) ==
  /\ ppc = "hosts"
  /\ \/ hs[h] = "selected" /\ CanDispatch(h) /\ Prepare(ctask, h)
     \/ hs[h] = "retry"
  /\ hs' = [hs EXCEPT ![h] = "running"]
  /\ att' = [att EXCEPT ![h] = @ + 1]
  /\ started' = IF hs[h] = "selected" THEN Append(started, h) ELSE started
  /\ rcmds' = rcmds \cup {[host |-> h, module |-> cmod, task |-> ctask.name]}
  /\ UNCHANGED <<pipe, inv, conf, facts, ppc, mi, ti, pcache, trace, pres, pfaults, runs, notPipe>>

AttemptOK(h) ==
  /\ ppc = "hosts"
  /\ hs[h] = "running"
  /\ ActionReads(ctask.action, h) \subseteq pcache
  /\ hs' = [hs EXCEPT ![h] = "ok"]
  /\ facts' = [facts EXCEPT ![h] = @ \cup ActionInstalls(ctask.action)]
  /\ UNCHANGED <<pipe, inv, conf, ppc, mi, ti, att, started, rcmds, pcache, trace, pres, pfaults,
                 runs, notPipe>>

\* one failure more than the budget is needed before the host fails
AttemptFailLate(h) ==
  /\ ppc = "hosts"
  /\ hs[h] = "running"
  /\ pfaults < MaxFaults
  /\ pfaults' = pfaults + 1
  /\ hs' = [hs EXCEPT ![h] = IF att[h] <= ctask.retry + 1 THEN "retry" ELSE "failed"]
  /\ UNCHANGED <<pipe, inv, conf, facts, ppc, mi, ti, att, started, rcmds, pcache, trace, pres,
                 runs, notPipe>>

\* step 4: on an error (a key missing from the cache, or a failure of the
\* host) the action is retried while the budget lasts
AttemptFail(h) ==
  /\ ppc = "hosts"
  /\ hs[h] = "running"
  /\ IF ActionReads(ctask.action, h) \subseteq pcache
       THEN pfaults < MaxFaults /\ pfaults' = pfaults + 1
       ELSE pfaults' = pfaults
  /\ hs' = [hs EXCEPT ![h] = IF att[h] <= ctask.retry THEN "retry" ELSE "failed"]
  /\ UNCHANGED <<pipe, inv, conf, facts, ppc, mi, ti, att, started, rcmds, pcache, trace, pres,
                 runs, notPipe>>

AllFinished == \A h \in HostNames : Finished(h)

\* the failed task does not stop the module
TaskFailedGoesOn ==
  /\ ppc = "hosts"
  /\ AllFinished
  /\ \E h \in HostNames : hs[h] = "failed"
  /\ ti' = ti + 1
  /\ ppc' = "task"
  /\ hs' = [h \in HostNames |-> "idle"]
  /\ att' = [h \in HostNames |-> 0]
  /\ UNCHANGED <<pipe, inv, conf, facts, mi, started, rcmds, pcache, trace, pres, pfaults, runs,
                 notPipe>>

\* step 5: a host failed, so the task, the module and the pipeline fail
TaskFailed ==
  /\ ppc = "hosts"
  /\ AllFinished
  /\ \E h \in HostNames : hs[h] = "failed"
  /\ trace' = Append(trace, Outcome(cmod, "failed"))
  /\ pres' = "failed"
  /\ ppc' = "done"
  /\ UNCHANGED <<pipe, inv, conf, facts, mi, ti, hs, att, started, rcmds, pcache, pfaults, runs,
                 notPipe>>

\* step 5: every host succeeded or was skipped; next task
TaskDone ==
  /\ ppc = "hosts"
  /\ AllFinished
  /\ \A h \in HostNames : hs[h] # "failed"
  /\ ti' = ti + 1
  /\ ppc' = "task"
  /\ hs' = [h \in HostNames |-> "idle"]
  /\ att' = [h \in HostNames |-> 0]
  /\ started' = <<>>
  /\ UNCHANGED <<pipe, inv, conf, facts, mi, rcmds, pcache, trace, pres, pfaults, runs, notPipe>>

\* after the last task the module publishes into the caches; a local task
\* that misses a key fails the module
ModuleDone ==
  /\ ppc = "task"
  /\ ti > Len(ModuleTasks(cmod))
  /\ IF LocalReads(cmod) \subseteq pcache
       THEN /\ pcache' = pcache \cup ModulePublishes(cmod)
            /\ trace' = Append(trace, Outcome(cmod, "ok"))
            /\ mi' = mi + 1
            /\ ppc' = "module"
            /\ pres' = pres
       ELSE /\ pcache' = pcache
            /\ trace' = Append(trace, Outcome(cmod, "failed"))
            /\ mi' = mi
            /\ ppc' = "done"
            /\ pres' = "failed"
  /\ UNCHANGED <<pipe, inv, conf, facts, ti, hs, att, started, rcmds, pfaults, runs, notPipe>>

PipelineDone ==
  /\ ppc = "module"
  /\ mi > Len(Modules(pipe))
  /\ pres' = "ok"
  /\ ppc' = "done"
  /\ UNCHANGED <<pipe, inv, conf, facts, mi, ti, hs, att, started, rcmds, pcache, trace, pfaults,
                 runs, notPipe>>

\* the same pipeline is invoked again on the same inventory, with a new cache
Rerun ==
  /\ ppc = "done"
  /\ pres = "ok"
  /\ runs < MaxRuns
  /\ ppc' = "start"
  /\ mi' = 0
  /\ ti' = 0
  /\ rcmds' = {}
  /\ pcache' = {}
  /\ trace' = <<>>
  /\ pres' = "none"
  /\ UNCHANGED <<pipe, inv, conf, facts, hs, att, started, pfaults, runs, notPipe>>

RunTask ==
  \/ TaskBegin
  \/ \E h \in HostNames : HostSkip(h) \/ AttemptStart(h) \/ AttemptOK(h) \/ AttemptFail(h)
  \/ TaskFailed
  \/ TaskDone

RunModule == ModuleSkip \/ ModuleInit \/ RunTask \/ ModuleDone

PipelineRun == PipelineStart \/ RunModule \/ PipelineDone

PipeNext == PipelineRun \/ Rerun

PipeSpec == PipeInit /\ [][PipeNext]_vars

(***************************************************************************)
(* Two task actions, statement by statement: SaveKubeConfig.Execute on a   *)
(* cluster and SyncDockerBinaries.Execute on a host.  The cache content    *)
(* and the objects and files already there are inputs; an execution runs   *)
(* to its return, and the action can then be executed again.               *)
(***************************************************************************)
\* what a task action leaves alone
notAction == <<ivars, hvars, evars, svars, pvars, rvars, qvars>>

\* executions of one action on the same cluster or host
MaxExec == 3

\* files the tmp dir can hold: the docker archive and anything else
TmpFiles == {"docker.tgz", "other"}

ActionNames == {"SaveKubeConfig", "SyncDockerBinaries"}

ActionInit ==
  /\ InstallInit
  /\ RolloutOff
  /\ ConfirmOff
  /\ dist = KUBERNETES
  /\ HealthOff
  /\ SelectOff
  /\ PipeOff
  /\ aact \in ActionNames
  /\ apc = "idle"
  /\ acache \in [status : {"none", "valid", "invalid"}, binaries : {"none", "nodocker", "docker"}]
  /\ aworld \in [ns : BOOLEAN, cm : BOOLEAN, tmp : SUBSET TmpFiles, bin : BOOLEAN]
  /\ aworld0 = aworld
  /\ aops = <<>>
  /\ aret = "none"
  /\ afault = FALSE
  /\ aexec = 0

\* the post-condition of the action: namespace and ConfigMap exist, resp. the
\* docker binaries are in /usr/bin
PostCondition(a, w) ==
  IF a = "SaveKubeConfig" THEN w.ns /\ w.cm ELSE w.bin

\* Execute returns
Return(r) ==
  /\ apc' = "returned"
  /\ aret' = r

\* the task runner calls Execute
Execute ==
  /\ apc \in {"idle", "returned"}
  /\ aexec < MaxExec
  /\ aexec' = aexec + 1
  /\ apc' = (IF aact = "SaveKubeConfig" THEN "getStatus" ELSE "resetTmpDir")
  /\ aworld0' = aworld
  /\ aops' = <<>>
  /\ aret' = "none"
  /\ afault' = FALSE
  /\ UNCHANGED <<aact, acache, aworld, notAction>>

\* PipelineCache.Get(ClusterStatus) finds nothing
SaveNoStatus ==
  /\ apc = "getStatus"
  /\ acache.status = "none"
  /\ Return("err")
  /\ UNCHANGED <<aact, acache, aworld, aworld0, aops, afault, aexec, notAction>>

\* the kubeconfig of the status does not make a client
SaveBadKubeConfig ==
  /\ apc = "getStatus"
  /\ acache.status = "invalid"
  /\ Return("err")
  /\ UNCHANGED <<aact, acache, aworld, aworld0, aops, afault, aexec, notAction>>

SaveClientBuilt ==
  /\ apc = "getStatus"
  /\ acache.status = "valid"
  /\ apc' = "createNamespace"
  /\ UNCHANGED <<aact, acache, aworld, aworld0, aops, aret, afault, aexec, notAction>>

\* Namespaces().Create on a cluster that has the namespace: AlreadyExists
SaveNamespaceExists ==
  /\ apc = "createNamespace"
  /\ aworld.ns
  /\ aops' = Append(aops, "CreateNamespace")
  /\ Return("err")
  /\ UNCHANGED <<aact, acache, aworld, aworld0, afault, aexec, notAction>>

\* Namespaces().Create fails for another reason
SaveNamespaceFailed ==
  /\ apc = "createNamespace"
  /\ ~aworld.ns
  /\ aops' = Append(aops, "CreateNamespace")
  /\ afault' = TRUE
  /\ Return("err")
  /\ UNCHANGED <<aact, acache, aworld, aworld0, aexec, notAction>>

SaveNamespaceCreated ==
  /\ apc = "createNamespace"
  /\ ~aworld.ns
  /\ aops' = Append(aops, "CreateNamespace")
  /\ aworld' = [aworld EXCEPT !.ns = TRUE]
  /\ apc' = "createConfigMap"
  /\ UNCHANGED <<aact, acache, aworld0, aret, afault, aexec, notAction>>

\* ConfigMaps("kubekey-system").Create when the ConfigMap is there: AlreadyExists
SaveConfigMapExists ==
  /\ apc = "createConfigMap"
  /\ aworld.cm
  /\ aops' = Append(aops, "CreateConfigMap")
  /\ Return("err")
  /\ UNCHANGED <<aact, acache, aworld, aworld0, afault, aexec, notAction>>

SaveConfigMapFailed ==
  /\ apc = "createConfigMap"
  /\ ~aworld.cm
  /\ aops' = Append(aops, "CreateConfigMap")
  /\ afault' = TRUE
  /\ Return("err")
  /\ UNCHANGED <<aact, acache, aworld, aworld0, aexec, notAction>>

SaveConfigMapCreated ==
  /\ apc = "createConfigMap"
  /\ ~aworld.cm
  /\ aops' = Append(aops, "CreateConfigMap")
  /\ aworld' = [aworld EXCEPT !.cm = TRUE]
  /\ Return("ok")
  /\ UNCHANGED <<aact, acache, aworld0, afault, aexec, notAction>>

SaveKubeConfig ==
  \/ SaveNoStatus
  \/ SaveBadKubeConfig
  \/ SaveClientBuilt
  \/ SaveNamespaceExists
  \/ SaveNamespaceFailed
  \/ SaveNamespaceCreated
  \/ SaveConfigMapExists
  \/ SaveConfigMapFailed
  \/ SaveConfigMapCreated

\* ResetTmpDir: rm -rf of the tmp dir, then mkdir
ResetTmpDirOK ==
  /\ apc = "resetTmpDir"
  /\ aops' = Append(aops, "ResetTmpDir")
  /\ aworld' = [aworld EXCEPT !.tmp = {}]
  /\ apc' = "getBinaries"
  /\ UNCHANGED <<aact, acache, aworld0, aret, afault, aexec, notAction>>

ResetTmpDirFailed ==
  /\ apc = "resetTmpDir"
  /\ aops' = Append(aops, "ResetTmpDir")
  /\ afault' = TRUE
  /\ Return("err")
  /\ UNCHANGED <<aact, acache, aworld, aworld0, aexec, notAction>>

\* PipelineCache.Get(KubeBinaries-arch) finds nothing, or the map has no docker key
SyncNoBinaries ==
  /\ apc = "getBinaries"
  /\ acache.binaries # "docker"
  /\ Return("err")
  /\ UNCHANGED <<aact, acache, aworld, aworld0, aops, afault, aexec, notAction>>

SyncGotBinaries ==
  /\ apc = "getBinaries"
  /\ acache.binaries = "docker"
  /\ apc' = "scp"
  /\ UNCHANGED <<aact, acache, aworld, aworld0, aops, aret, afault, aexec, notAction>>

ScpOK ==
  /\ apc = "scp"
  /\ aops' = Append(aops, "Scp")
  /\ aworld' = [aworld EXCEPT !.tmp = @ \cup {"docker.tgz"}]
  /\ apc' = "install"
  /\ UNCHANGED <<aact, acache, aworld0, aret, afault, aexec, notAction>>

ScpFailed ==
  /\ apc = "scp"
  /\ aops' = Append(aops, "Scp")
  /\ afault' = TRUE
  /\ Return("err")
  /\ UNCHANGED <<aact, acache, aworld, aworld0, aexec, notAction>>

\* SudoCmd: untar the archive and move the binaries to /usr/bin
InstallOK ==
  /\ apc = "install"
  /\ aops' = Append(aops, "SudoCmd")
  /\ aworld' = [aworld EXCEPT !.bin = TRUE]
  /\ Return("ok")
  /\ UNCHANGED <<aact, acache, aworld0, afault, aexec, notAction>>

InstallFailed ==
  /\ apc = "install"
  /\ aops' = Append(aops, "SudoCmd")
  /\ afault' = TRUE
  /\ Return("err")
  /\ UNCHANGED <<aact, acache, aworld, aworld0, aexec, notAction>>

SyncDockerBinaries ==
  \/ ResetTmpDirOK
  \/ ResetTmpDirFailed
  \/ SyncNoBinaries
  \/ SyncGotBinaries
  \/ ScpOK
  \/ ScpFailed
  \/ InstallOK
  \/ InstallFailed

ActionNext == Execute \/ SaveKubeConfig \/ SyncDockerBinaries

ActionSpec == ActionInit /\ [][ActionNext]_vars

(***************************************************************************)
(* Rollout selection of ControlPlane: MachinesNeedingRollout and           *)
(* UpToDateMachines over the machines of the control plane.  Whether a     *)
(* machine matches the KCP configuration is an input.                      *)
(***************************************************************************)
\* what the rollout functions leave alone
notRollout == <<ivars, hvars, evars, svars, pvars, avars, qvars>>

RolloutInit ==
  /\ InstallInit
  /\ ConfirmOff
  /\ dist = KUBERNETES
  /\ HealthOff
  /\ PipeOff
  /\ ActionOff
  /\ cpMachines \in [CPMachineNames -> [fd : {"nil"}, created : 1..MaxAge, annotated : {FALSE}]]
  /\ cpDomains = {}
  /\ cpInput = {}
  /\ cpOut = [fn |-> "off", machines |-> {}, err |-> FALSE]
  /\ cpDeleting \in SUBSET CPMachineNames
  /\ cpMatches \in SUBSET CPMachineNames
  /\ rolloutAfter \in 0..(MaxAge + 1)
  /\ reconciliationTime \in 1..(MaxAge + 2)
  /\ cpRollout = NoRollout

\* collections.HasDeletionTimestamp
HasDeletionTimestamp(m) == m \in cpDeleting

\* collections.ShouldRolloutAfter: the deadline is set, has expired, and the
\* machine was created before it
ShouldRolloutAfter(m) ==
  /\ rolloutAfter # 0
  /\ cpMachines[m].created < rolloutAfter
  /\ rolloutAfter < reconciliationTime

MatchesMachineSpec(m) == m \in cpMatches

\* the machines that are not being deleted and are due for rollout or outdated
MachinesNeedingRollout ==
  {m \in {x \in CPMachineNames : ~HasDeletionTimestamp(x)} :
     ShouldRolloutAfter(m) \/ ~MatchesMachineSpec(m)}

\* only the configuration is looked at, not the rollout deadline
UpToDateIgnoringDeadline == {m \in CPMachineNames : MatchesMachineSpec(m)}

\* the machines that are not due for rollout and match the configuration
UpToDateMachines ==
  {m \in CPMachineNames : ~ShouldRolloutAfter(m) /\ MatchesMachineSpec(m)}

CallMachinesNeedingRollout ==
  /\ ~cpRollout.needDone
  /\ cpRollout' = [cpRollout EXCEPT !.needDone = TRUE, !.need = MachinesNeedingRollout]
  /\ UNCHANGED <<cpDeleting, cpMatches, rolloutAfter, reconciliationTime, notRollout>>

CallUpToDateMachines ==
  /\ ~cpRollout.upDone
  /\ cpRollout' = [cpRollout EXCEPT !.upDone = TRUE, !.up = UpToDateMachines]
  /\ UNCHANGED <<cpDeleting, cpMatches, rolloutAfter, reconciliationTime, notRollout>>

RolloutNext == CallMachinesNeedingRollout \/ CallUpToDateMachines

RolloutSpec == RolloutInit /\ [][RolloutNext]_vars

(***************************************************************************)
(* The interactive confirmations: InstallationConfirm, DeleteConfirm,      *)
(* UpgradeConfirm, CheckFile and MigrateCri read standard input line by    *)
(* line.  The input is a finite stream: complete lines, then what follows  *)
(* the last newline (possibly nothing).                                    *)
(***************************************************************************)
\* what the confirmations leave alone
notConfirm == <<ivars, hvars, evars, svars, pvars, avars, rvars>>

ConfirmActions == {"InstallationConfirm", "DeleteConfirm", "UpgradeConfirm", "CheckFile", "MigrateCri"}

\* number of complete lines of the input
MaxLines == 2

\* line contents as typed, without the newline
RawLines == {"yes", " Y ", "NO", "n", "maybe", ""}

\* strings.ToLower(strings.TrimSpace(input))
Normalize(raw) ==
  CASE raw = " Y " -> "y"
    [] raw = "NO" -> "no"
    [] OTHER -> raw

\* what can hold before the question is asked
ConfirmOptions(a) ==
  CASE a = "InstallationConfirm" -> {"ask", "no-host-cache", "stop", "skip-confirm"}
    [] a = "UpgradeConfirm" -> {"ask", "no-cache", "fatal"}
    [] a = "CheckFile" -> {"ask", "no-file"}
    [] OTHER -> {"ask"}

ConfirmInit ==
  /\ InstallInit
  /\ dist = KUBERNETES
  /\ HealthOff
  /\ SelectOff
  /\ PipeOff
  /\ ActionOff
  /\ RolloutOff
  /\ qact \in ConfirmActions
  /\ qopt \in ConfirmOptions(qact)
  /\ qlines \in UNION {[1..k -> RawLines] : k \in 0..MaxLines}
  /\ qtail \in RawLines
  /\ qpc = "start"
  /\ qres = "none"

\* Execute ends: it returns, or the process exits
ConfirmEnd(r) ==
  /\ qpc' = "ended"
  /\ qres' = r

\* the statements before the question
ConfirmStart ==
  /\ qpc = "start"
  /\ CASE qopt = "ask" -> qpc' = "prompt" /\ UNCHANGED qres
       [] qopt \in {"no-host-cache", "no-cache"} -> ConfirmEnd("err")
       [] qopt = "stop" -> ConfirmEnd("exit1")
       [] qopt = "fatal" -> ConfirmEnd("fatal")
       [] qopt \in {"skip-confirm", "no-file"} -> ConfirmEnd("nil")
  /\ UNCHANGED <<qact, qopt, qlines, qtail, notConfirm>>

\* the question is printed
ConfirmPrompt ==
  /\ qpc = "prompt"
  /\ qpc' = "read"
  /\ UNCHANGED <<qact, qopt, qlines, qtail, qres, notConfirm>>

\* the switch on the answer: yes ends the loop, no exits, anything else asks again
Answer(input) ==
  CASE input \in {"yes", "y"} -> ConfirmEnd("nil")
    [] input \in {"no", "n"} -> ConfirmEnd("exit0")
    [] OTHER -> qpc' = "prompt" /\ UNCHANGED qres

\* ReadString('\n') returns a complete line
ConfirmRead ==
  /\ qpc = "read"
  /\ qlines # <<>>
  /\ qlines' = Tail(qlines)
  /\ Answer(Normalize(Head(qlines)))
  /\ UNCHANGED <<qact, qopt, qtail, notConfirm>>

\* ReadString('\n') meets the end of the input: it returns what was left and
\* an error, which the action returns (InstallationConfirm calls Fatal)
ConfirmReadError ==
  /\ qpc = "read"
  /\ qlines = <<>>
  /\ qact # "CheckFile"
  /\ qtail' = ""
  /\ ConfirmEnd(IF qact = "InstallationConfirm" THEN "fatal" ELSE "err")
  /\ UNCHANGED <<qact, qopt, qlines, notConfirm>>

\* CheckFile drops the error of ReadString and looks at what was returned
CheckFileReadError ==
  /\ qpc = "read"
  /\ qlines = <<>>
  /\ qact = "CheckFile"
  /\ qtail' = ""
  /\ Answer(Normalize(qtail))
  /\ UNCHANGED <<qact, qopt, qlines, notConfirm>>

ConfirmNext ==
  \/ ConfirmStart
  \/ ConfirmPrompt
  \/ ConfirmRead
  \/ ConfirmReadError
  \/ CheckFileReadError

\* the process keeps running: a step that can be taken is taken
ConfirmSpec == ConfirmInit /\ [][ConfirmNext]_vars /\ WF_vars(ConfirmNext)

TypeOK ==
  /\ dist \in Distributions
  /\ state \in InstanceStates
  /\ pc \in {"idle", "ping", "enter", "run", "defer", "returned", "denter", "drun", "ddefer", "dreturned"}
  /\ pi \in 0..5
  /\ faults \in 0..MaxFaults
  /\ \A t \in ConditionTypes : conds[t].status \in {"Unset", "True", "False"}

(***************************************************************************)
(* What the specification says of each phase, kept apart from the tables   *)
(* of the model above.                                                     *)
(***************************************************************************)
SpecCondition ==
  [Bootstrap |-> "Bootstrapped", Repository |-> "RepositoryReady", BinaryService |-> "BinariesReady",
   ContainerManager |-> "CRIReady", Provisioning |-> "Provisioned"]

SpecReason ==
  [Bootstrap |-> "InitOSFailed", Repository |-> "RepositoryFailed", BinaryService |-> "GetBinaryFailed",
   ContainerManager |-> "InstallCRIFailed", Provisioning |-> "RunCloudConfigFailed"]

SpecSeverity ==
  [Bootstrap |-> "Warning", Repository |-> "Warning", BinaryService |-> "Error",
   ContainerManager |-> "Error", Provisioning |-> "Error"]

SpecFullList == <<Bootstrap, Repository, BinaryService, ContainerManager, Provisioning>>
SpecK3sList == <<Bootstrap, Repository, BinaryService, Provisioning>>

\* a phase function has just returned to the loop
PhaseReturned == pc = "returned" /\ pi >= 1

\* C1: a phase whose own condition is True when it starts issues no service
\* operation and no SSH command, leaves the instance state alone, returns
\* nil, and its condition is still True when it returns.
C1_TruePhaseIsNoOp ==
  (PhaseReturned /\ entry.conds[SpecCondition[cur]].status = "True")
    => /\ calls = <<>>
       /\ state = entry.state
       /\ err = Nil
       /\ conds[SpecCondition[cur]].status = "True"

\* the last phase of the list returned from a start with Provisioned already True
C1_Witness ==
  /\ PhaseReturned
  /\ cur = Provisioning
  /\ entry.conds["Provisioned"].status = "True"
  /\ calls = <<>>

\* C2: a phase that actually runs writes exactly its own condition when it
\* returns: True on success; on error False with the error text as message,
\* the phase's reason code, and severity Warning for Bootstrap and
\* Repository, Error for BinaryService, ContainerManager and Provisioning.
C2_RunPhaseWritesOwnCondition ==
  (PhaseReturned /\ entry.conds[SpecCondition[cur]].status # "True")
    => conds = [entry.conds EXCEPT ![SpecCondition[cur]] =
                  IF err = Nil
                    THEN [status |-> "True", reason |-> "", severity |-> "", message |-> Nil]
                    ELSE [status |-> "False", reason |-> SpecReason[cur],
                          severity |-> SpecSeverity[cur], message |-> err]]

\* the container manager phase ran and returned an error
C2_Witness ==
  /\ PhaseReturned
  /\ cur = ContainerManager
  /\ err # Nil
  /\ conds["CRIReady"].status = "False"

\* C3: phaseFactory returns the five phases in order for KUBERNETES, and the
\* same list without ContainerManager, order kept, for K3S.
C3_PhaseListByDistribution ==
  /\ dist = KUBERNETES => phaseFactory(dist) = SpecFullList
  /\ dist = K3S => phaseFactory(dist) = SpecK3sList

\* a K3S host has walked its whole list in one cycle
C3_Witness ==
  /\ dist = K3S
  /\ pc = "idle"
  /\ ran = SpecK3sList
  /\ err = Nil

SpecList(d) == IF d = KUBERNETES THEN SpecFullList ELSE IF d = K3S THEN SpecK3sList ELSE <<>>

\* a cycle walked the whole phase list and ended
CycleComplete == pc = "idle" /\ state = "Succeeded"

\* C4 as stated: for every distribution that is not K3S, also one that is
\* neither KUBERNETES nor K3S, the executed phase list is the full sequence.
C4_Original ==
  dist # K3S => /\ phaseFactory(dist) = SpecFullList
                /\ CycleComplete => ran = SpecFullList

\* C4 (amended): for KUBERNETES the phase list the adapter executes is the
\* full sequence Bootstrap, Repository, BinaryService, ContainerManager,
\* Provisioning; for a value that is neither KUBERNETES nor K3S the list is
\* empty and no phase is ever invoked.
C4_FullListOnlyForKubernetes ==
  /\ dist = KUBERNETES => /\ phaseFactory(dist) = SpecFullList
                          /\ CycleComplete => ran = SpecFullList
  /\ dist \notin {KUBERNETES, K3S} => /\ phaseFactory(dist) = <<>>
                                      /\ invoked = {}
                                      /\ ran = <<>>

\* a host with an unlisted distribution ended a cycle without any phase
C4_Witness ==
  /\ dist = UNLISTED
  /\ CycleComplete
  /\ ran = <<>>
  /\ Len(calls) > 0

\* C5: for a K3S host, in every reachable state the CRIReady condition is
\* not set (neither True nor False) and the ContainerManager phase has not
\* been invoked.
C5_K3sNeverTouchesCRI ==
  dist = K3S => /\ conds["CRIReady"] = Unset
                /\ ContainerManager \notin invoked
                /\ \A k \in 1..Len(ran) : ran[k] # ContainerManager

\* the other four conditions of a K3S host are True after a failure on the way
C5_Witness ==
  /\ dist = K3S
  /\ \A t \in {"Bootstrapped", "RepositoryReady", "BinariesReady", "Provisioned"} : conds[t].status = "True"
  /\ conds["CRIReady"].status = "Unset"
  /\ "Failed" \in seen
  /\ state = "Succeeded"

\* C6: inside a reconcile cycle a condition that is True stays True, and a
\* step of a phase changes no condition but the phase's own.
C6_TrueStaysTrueInCycle ==
  [][pc # "idle" =>
       \A t \in ConditionTypes :
         /\ conds[t].status = "True" => conds'[t].status = "True"
         /\ (pc \in {"enter", "run", "defer"} /\ t # SpecCondition[cur]) => conds'[t] = conds[t]]_vars

\* the container manager phase failed while the earlier conditions are True
C6_Witness ==
  /\ PhaseReturned
  /\ cur = ContainerManager
  /\ err # Nil
  /\ conds["CRIReady"].status = "False"
  /\ \A t \in {"Bootstrapped", "RepositoryReady", "BinariesReady"} : conds[t].status = "True"

Contains(m, t) == \E k \in 1..Len(m) : m[k] = t

\* the calls of the current function that returned an error the function acts on
FailedCalls == {k \in 1..Len(calls) : calls[k].text # "" /\ calls[k].op # "UmountISO"}

\* a cycle ended because its last invoked phase returned an error
CycleFailedInPhase == pc = "idle" /\ err # Nil /\ ran # <<>>

\* C7: when a phase fails in a cycle its condition is False with the phase's
\* severity and reason and a message containing the error text, the host
\* state is Failed, and no later phase of the list ran in that cycle.
C7_FailedPhaseEndsCycle ==
  CycleFailedInPhase =>
    LET p == ran[Len(ran)]
        c == conds[SpecCondition[p]]
    IN /\ c.status = "False"
       /\ c.severity = SpecSeverity[p]
       /\ c.reason = SpecReason[p]
       /\ FailedCalls # {}
       /\ \A k \in FailedCalls : Contains(c.message, calls[k].text)
       /\ state = "Failed"
       /\ Len(ran) <= Len(SpecList(dist))
       /\ ran = SubSeq(SpecList(dist), 1, Len(ran))

\* the download of the binaries failed with 404 on a Kubernetes host
C7_Witness ==
  /\ CycleFailedInPhase
  /\ dist = KUBERNETES
  /\ ran = <<Bootstrap, Repository, BinaryService>>
  /\ conds["BinariesReady"].message = <<"404 Not Found">>
  /\ conds["BinariesReady"].severity = "Error"
  /\ state = "Failed"

\* C8: over any number of cycles a failed phase does not block the next
\* cycle; a phase whose condition was True when the cycle began does no
\* remote work in it; the remote work of each phase completes successfully
\* at most once, and exactly once per listed phase when nothing failed.
C8_WorkAtMostOnce ==
  /\ \A p \in Phases : work[p] <= 1
  /\ (pc = "idle" /\ state = "Failed") => ENABLED StartReconcile
  /\ (pi >= 1 /\ pc \in {"run", "defer", "returned"} /\ calls # <<>>)
       => begin[SpecCondition[cur]].status # "True"
  /\ (CycleComplete /\ faults = 0)
       => \A p \in Phases : work[p] = IF \E k \in 1..Len(SpecList(dist)) : SpecList(dist)[k] = p THEN 1 ELSE 0

\* a Kubernetes host failed on the way and every phase has done its work once
C8_Witness ==
  /\ dist = KUBERNETES
  /\ CycleComplete
  /\ "Failed" \in seen
  /\ faults = MaxFaults
  /\ \A p \in Phases : work[p] = 1

Converged ==
  /\ \A t \in {"Bootstrapped", "RepositoryReady", "BinariesReady", "CRIReady", "Provisioned", "Ready"} :
       conds[t].status = "True"
  /\ state = "Succeeded"

\* C9: when failures eventually stop and reconciles keep being scheduled, a
\* Pending Kubernetes host eventually has all five phase conditions and
\* Ready True with state Succeeded, having been Bootstrapping on the way.
C9_PendingLeadsToSucceeded ==
  (dist = KUBERNETES /\ state = "Pending") ~> (Converged /\ "Bootstrapping" \in seen)

\* a Kubernetes host converged although the environment used its whole failure budget
C9_Witness ==
  /\ dist = KUBERNETES
  /\ Converged
  /\ seen = {"Pending", "Bootstrapping", "Failed", "Succeeded"}
  /\ faults = MaxFaults

\* C10: when the fetch of the bootstrap data returns the cancellation error,
\* reconcileProvisioning returns that error as it is and the Provisioned
\* condition is left as it was on entry.
C10_CancelLeavesCondition ==
  (PhaseReturned /\ cur = Provisioning /\ FailedCalls # {}
     /\ \A k \in FailedCalls : calls[k].text = Canceled)
    => /\ err = <<Canceled>>
       /\ conds["Provisioned"] = entry.conds["Provisioned"]

\* the operations of the current function, by name
OpsCalled == [k \in 1..Len(calls) |-> calls[k].op]

\* positions of the calls of an operation
CallsOf(op) == {k \in 1..Len(calls) : calls[k].op = op}

\* C11: in the Repository phase, once MountISO has been called, whether it
\* or UpdateAndInstall succeeded or failed, UmountISO has been called
\* exactly once, after MountISO, when the phase returns.
C11_UmountOnceAfterMount ==
  (PhaseReturned /\ cur = Repository /\ CallsOf("MountISO") # {})
    => /\ Cardinality(CallsOf("UmountISO")) = 1
       /\ Cardinality(CallsOf("MountISO")) = 1
       /\ \A m \in CallsOf("MountISO") : \A u \in CallsOf("UmountISO") : m < u
       /\ calls[Len(calls)].op = "UmountISO"

\* MountISO failed and the phase returned
C11_Witness ==
  /\ PhaseReturned
  /\ cur = Repository
  /\ OpsCalled = <<"Check", "Get", "MountISO", "UmountISO">>
  /\ ~calls[3].ok
  /\ err # Nil

SpecDeleteOps == <<"KubeadmReset", "ResetNetwork", "RemoveFiles", "DaemonReload", "UninstallK3s">>

\* C12: the deletion phase sets the state Cleaning before its first
\* operation, runs KubeadmReset, ResetNetwork, RemoveFiles, DaemonReload,
\* UninstallK3s in that order and stops at the first error;
\* DeletingBootstrap is True iff all five succeeded, otherwise False with
\* severity Warning and reason ClearEnvironmentFailed.
C12_DeletionOrderAndCondition ==
  /\ pc \in {"drun", "ddefer", "dreturned"}
       => /\ state = "Cleaning"
          /\ Len(calls) <= Len(SpecDeleteOps)
          /\ OpsCalled = SubSeq(SpecDeleteOps, 1, Len(calls))
          /\ \A k \in 1..(Len(calls) - 1) : calls[k].ok
  /\ pc = "dreturned"
       => LET allOK == Len(calls) = Len(SpecDeleteOps) /\ \A k \in 1..Len(calls) : calls[k].ok
              c == conds["DeletingBootstrap"]
          IN /\ c.status = "True" <=> allOK
             /\ ~allOK => /\ c.status = "False"
                          /\ c.severity = "Warning"
                          /\ c.reason = "ClearEnvironmentFailed"
                          /\ ~calls[Len(calls)].ok

\* the deletion stopped at a failing RemoveFiles
C12_Witness ==
  /\ pc = "dreturned"
  /\ OpsCalled = <<"KubeadmReset", "ResetNetwork", "RemoveFiles">>
  /\ conds["DeletingBootstrap"].status = "False"

\* C13: if DeletingBootstrap is already True when reconcileDeletingBootstrap
\* starts, none of the five clean-up operations is issued and the phase
\* returns nil.
C13_DeletionChecksCondition ==
  (pc = "dreturned" /\ entry.conds["DeletingBootstrap"].status = "True")
    => /\ calls = <<>>
       /\ err = Nil

\* C14: for bootstrap data that parses to k commands the Provisioning phase
\* issues them with SudoCmd one at a time in input order: exactly k when
\* all succeed, exactly i when command i fails, and then Provisioned is
\* marked False.
C14_CommandsInOrderUntilFailure ==
  (PhaseReturned /\ cur = Provisioning /\ CallsOf("RawBootstrapDataToProvisioningCommands") # {}
     /\ calls[2].ok)
    => LET n == Len(calls) - 2 IN
       /\ \A k \in 1..n : calls[2 + k].op = "SudoCmd" /\ calls[2 + k].arg = k
       /\ \A k \in 1..(n - 1) : calls[2 + k].ok
       /\ n <= cmds
       /\ IF n > 0 /\ ~calls[2 + n].ok
            THEN conds["Provisioned"].status = "False"
            ELSE n = cmds /\ conds["Provisioned"].status = "True"

\* the first of two commands failed: one command issued, Provisioned False
C14_Witness ==
  /\ PhaseReturned
  /\ cur = Provisioning
  /\ cmds = 2
  /\ Len(calls) = 3
  /\ calls[3].op = "SudoCmd"
  /\ ~calls[3].ok
  /\ conds["Provisioned"].status = "False"

\* reconcilePing has returned to the loop
PingReturned == pc = "returned" /\ pi = 0

\* C15: reconcilePing calls Ping at most 3 times, stops at the first
\* success and returns nil, returns the last error iff all 3 attempts
\* failed, and writes no condition.
C15_PingAtMostThrice ==
  /\ pc = "ping" => conds = begin /\ \A k \in 1..Len(calls) : calls[k].op = "Ping" /\ ~calls[k].ok
  /\ PingReturned
       => /\ Len(calls) \in 1..3
          /\ \A k \in 1..Len(calls) : calls[k].op = "Ping"
          /\ \A k \in 1..(Len(calls) - 1) : ~calls[k].ok
          /\ err = Nil <=> calls[Len(calls)].ok
          /\ err # Nil <=> (Len(calls) = 3 /\ \A k \in 1..3 : ~calls[k].ok)
          /\ err # Nil => err = <<calls[3].text>>
          /\ conds = begin

\* three attempts failed with different texts; the last one is returned
C15_Witness ==
  /\ PingReturned
  /\ Len(calls) = 3
  /\ calls[2].text # calls[3].text
  /\ err = <<calls[3].text>>

\* C16: in the ContainerManager phase, when IsExist is true neither Get nor
\* Install is invoked and CRIReady becomes True; otherwise Get then Install
\* are invoked in that order and CRIReady is True iff both succeeded.
C16_InstallOnlyWhenAbsent ==
  (PhaseReturned /\ cur = ContainerManager /\ calls # <<>>)
    => /\ calls[1].op = "IsExist"
       /\ calls[1].ok => /\ Len(calls) = 1
                         /\ conds["CRIReady"].status = "True"
       /\ ~calls[1].ok =>
            /\ Len(calls) >= 2
            /\ OpsCalled = SubSeq(<<"IsExist", "Get", "Install">>, 1, Len(calls))
            /\ conds["CRIReady"].status = "True" <=> (Len(calls) = 3 /\ calls[2].ok /\ calls[3].ok)
            /\ (Len(calls) = 2) => ~calls[2].ok

\* no runtime was found, Get succeeded and Install failed
C16_Witness ==
  /\ PhaseReturned
  /\ cur = ContainerManager
  /\ OpsCalled = <<"IsExist", "Get", "Install">>
  /\ ~calls[1].ok
  /\ ~calls[3].ok
  /\ conds["CRIReady"].status = "False"


\* a step taken inside a phase function
InPhase == pc \in {"enter", "run", "defer", "denter", "drun", "ddefer"}

C37_UmountNeverCounts ==
  /\ []((PhaseReturned /\ cur = Repository) =>
          /\ (\E k \in FailedCalls : calls[k].op \in {"Check", "Get"}) =>
               (CallsOf("MountISO") = {} /\ CallsOf("UmountISO") = {})
          /\ (err = Nil) <=> (FailedCalls = {})
          /\ IsTrue(conds, "RepositoryReady") <=> (FailedCalls = {}))
  /\ [][(pc \in {"enter", "run", "defer"} /\ cur = Repository /\ conds' # conds) =>
          (CallsOf("MountISO") # {} => CallsOf("UmountISO") # {})]_vars

\* C37 witness: every operation of the phase succeeded, UmountISO failed, and
\* the phase returned nil with RepositoryReady True
C37_Witness ==
  /\ PhaseReturned
  /\ cur = Repository
  /\ OpsCalled = <<"Check", "Get", "MountISO", "UpdateAndInstall", "UmountISO">>
  /\ calls[5].text # ""
  /\ err = Nil
  /\ IsTrue(conds, "RepositoryReady")

(***************************************************************************)
(* Claims about the control-plane health pass (HealthSpec).                *)
(***************************************************************************)
\* some machine reports the agent condition with this status (and, when False, this severity)
AnyReports(status, severity) ==
  \E m \in MachineNames :
    /\ machines[m].agent.status = status
    /\ status = "False" => machines[m].agent.severity = severity

\* at least one machine carries the agent condition and every one carried has this status
EveryConditionIs(status) ==
  /\ \E m \in MachineNames : machines[m].agent.status # "None"
  /\ \A m \in MachineNames : machines[m].agent.status \in {"None", status}

KcpIs(status, severity) == kcp.status = status /\ kcp.severity = severity

\* the pass went through the aggregation and returned
Aggregated == hpc = "done"

\* the pass returned after the node list had been retrieved
ReturnedWithList == hpc \in {"done", "returned-early"}

\* C17: with no cluster-level errors passed in, the aggregated cluster condition
\* follows the priority Error > Warning > Info > True > Unknown over what the
\* machines report: False/Error if any machine reports Error, else False/Warning
\* if any reports Warning, else False/Info if any reports False with severity
\* Info, else True if any reports True, else Unknown if any reports Unknown.
C17_AggregationPriority ==
  (Aggregated /\ kcpErrors = <<>>) =>
    IF AnyReports("False", "Error") THEN KcpIs("False", "Error")
    ELSE IF AnyReports("False", "Warning") THEN KcpIs("False", "Warning")
    ELSE IF AnyReports("False", "Info") THEN KcpIs("False", "Info")
    ELSE IF AnyReports("True", "") THEN KcpIs("True", "")
    ELSE AnyReports("Unknown", "") => KcpIs("Unknown", "")

\* C18 as stated: after the aggregation over machines carrying the condition,
\* all True gives True, at least one False/Error gives False/Error whatever
\* the others report, all Unknown gives Unknown.
C18_Original ==
  Aggregated =>
    /\ EveryConditionIs("True") => KcpIs("True", "")
    /\ AnyReports("False", "Error") => KcpIs("False", "Error")
    /\ EveryConditionIs("Unknown") => KcpIs("Unknown", "")

\* C18 amended: at least one False/Error gives False/Error whatever else is
\* reported; all True gives True and all Unknown gives Unknown provided no
\* cluster-level error (a node without a machine) was passed in, and any
\* cluster-level error gives False/Error.
C18_AggregateRoundTrip ==
  Aggregated =>
    /\ AnyReports("False", "Error") => KcpIs("False", "Error")
    /\ kcpErrors # <<>> => KcpIs("False", "Error")
    /\ (kcpErrors = <<>> /\ EveryConditionIs("True")) => KcpIs("True", "")
    /\ (kcpErrors = <<>> /\ EveryConditionIs("Unknown")) => KcpIs("Unknown", "")

\* C18 witness: a machine reporting Error next to one reporting a warning, aggregated
C18_Witness ==
  /\ Aggregated
  /\ AnyReports("False", "Error")
  /\ AnyReports("False", "Warning")
  /\ KcpIs("False", "Error")

\* C19: when the pass has returned after the node list was retrieved, every
\* machine whose NodeRef names a node that is not in the list has the agent
\* condition False with reason PodFailed and severity Error.
C19_MissingNodeMarkedFailed ==
  ReturnedWithList =>
    \A m \in MachineNames :
      (/\ machines[m].nodeRef # "none"
       /\ \A k \in 1..Len(nodes) : nodes[k].name # machines[m].nodeRef)
      => /\ machines[m].agent.status = "False"
         /\ machines[m].agent.reason = "PodFailed"
         /\ machines[m].agent.severity = "Error"

\* C20: when the pass has returned after the node list was retrieved, every
\* listed node has been examined and the machine conditions have been
\* aggregated into the cluster-level condition, whatever the node lookups gave.
C20_AllNodesThenAggregate ==
  ReturnedWithList => (ni = Len(nodes) + 1 /\ Aggregated)


\* the agent pass has just returned because the node list could not be retrieved
AgentListFailedStep == hpc = "start" /\ hpc' = "list-failed"

\* the etcd pass has just returned because the node list could not be retrieved
EtcdListFailedStep == epc = "start" /\ epc' = "list-failed"

\* NodeRef and deletion timestamp of every machine, and the node list, are as before
MachinesAndNodesKept ==
  /\ nodes' = nodes
  /\ \A m \in MachineNames :
       /\ machines'[m].nodeRef = machines[m].nodeRef
       /\ machines'[m].deleting = machines[m].deleting

\* C21: when listing the control-plane nodes fails, UpdateAgentConditions (resp.
\* UpdateEtcdConditions) marks MachineAgentHealthy (resp.
\* MachineEtcdMemberHealthy) of every machine Unknown and the cluster-level
\* condition Unknown, changes nothing else and sets no error.
C21_ListFailureMarksUnknown ==
  [][/\ AgentListFailedStep =>
          /\ \A m \in MachineNames : machines'[m].agent.status = "Unknown"
          /\ kcp'.status = "Unknown"
          /\ MachinesAndNodesKept
          /\ UNCHANGED <<etcd, kcpEtcd, ivars>>
     /\ EtcdListFailedStep =>
          /\ \A m \in MachineNames : etcd'[m].status = "Unknown"
          /\ kcpEtcd'.status = "Unknown"
          /\ UNCHANGED <<machines, nodes, kcp, ivars>>]_vars

\* C21 witness: the agent pass has returned on a list failure, every machine and the KCP marked
C21_Witness ==
  /\ hpc = "list-failed"
  /\ kcp.status = "Unknown"
  /\ \A m \in MachineNames : machines[m].agent.reason = "PodInspectionFailed"
  /\ epc = "start"

\* no two machines name the same node
DistinctNodeRefs ==
  \A a, b \in MachineNames :
    (a # b /\ machines[a].nodeRef # "none") => machines[a].nodeRef # machines[b].nodeRef

\* C22: after the etcd pass with a retrieved node list, a machine whose NodeRef
\* names a listed node has MachineEtcdMemberHealthy True if it is not being
\* deleted and False/Info with reason Deleting if it is, and a machine marked
\* True has had a successful member liveness probe (a successful request
\* other than the node listing).
C22_EtcdMemberConditions ==
  (epc = "done" /\ DistinctNodeRefs) =>
    \A m \in MachineNames :
      (\E k \in 1..Len(nodes) : nodes[k].name = machines[m].nodeRef) =>
        IF machines[m].deleting
          THEN /\ etcd[m].status = "False"
               /\ etcd[m].severity = "Info"
               /\ etcd[m].reason = "Deleting"
          ELSE /\ etcd[m].status = "True"
               /\ \E k \in DOMAIN ecalls : ecalls[k].op # "getControlPlaneNodes" /\ ecalls[k].ok


\* x is at least as old as every machine of the set
OldestIn(x, ms) == x \in ms /\ \A y \in ms : cpMachines[x].created <= cpMachines[y].created

\* input machines whose failure domain is nil or not among the defined ones
OutsideDomains == {m \in cpInput : cpMachines[m].fd \notin cpDomains}

\* the number of control-plane machines in a domain
Population(d) == Cardinality({m \in CPMachineNames : cpMachines[m].fd = d})

\* the domains the claim lets the selection use
SelectedDomains ==
  IF OutsideDomains # {}
    THEN {cpMachines[m].fd : m \in {x \in OutsideDomains : OldestIn(x, OutsideDomains)}}
    ELSE {d \in cpDomains :
            /\ \E m \in cpInput : cpMachines[m].fd = d
            /\ \A e \in cpDomains : (\E m \in cpInput : cpMachines[m].fd = e) => Population(e) <= Population(d)}

\* C23: MachineWithDeleteAnnotation returns exactly the input machines carrying
\* the delete annotation; MachineInFailureDomainWithMostMachines returns, for a
\* non-empty input, without error one input machine that is the oldest of the
\* input machines in the selected failure domain (the domain of the oldest
\* machine outside the defined domains if there is one, otherwise a domain
\* holding the most machines), and an error when nothing can be picked.
C23_DeletionCandidate ==
  /\ cpOut.fn = "MachineWithDeleteAnnotation" =>
       cpOut.machines = {m \in cpInput : cpMachines[m].annotated}
  /\ cpOut.fn = "MachineInFailureDomainWithMostMachines" =>
       IF cpInput = {}
         THEN cpOut.err /\ cpOut.machines = {}
         ELSE /\ ~cpOut.err
              /\ Cardinality(cpOut.machines) = 1
              /\ \A x \in cpOut.machines :
                   \E d \in SelectedDomains :
                     OldestIn(x, {m \in cpInput : cpMachines[m].fd = d})

\* C23 witness: the oldest input machine is not the one picked, because it is
\* in a less populated domain
C23_Witness ==
  /\ cpOut.fn = "MachineInFailureDomainWithMostMachines"
  /\ OutsideDomains = {}
  /\ \E x \in cpOut.machines : \E y \in cpInput :
       cpMachines[y].created < cpMachines[x].created


\* a listed node that no machine names
OrphanNode == \E k \in 1..Len(nodes) : \A m \in MachineNames : machines[m].nodeRef # nodes[k].name

\* C32: after UpdateAgentConditions with a retrieved node list, when a listed
\* node has no machine and every machine has a NodeRef the cluster-level
\* condition is False with severity Error whatever the machines report; when a
\* machine is still provisioning, nodes without a machine give no
\* cluster-level error.
C32_OrphanNodeReportedAtKCP ==
  /\ (ReturnedWithList /\ OrphanNode /\ ~hasProvisioningMachine(machines)) => KcpIs("False", "Error")
  /\ hasProvisioningMachine(machines) => kcpErrors = <<>>

\* C33: after the etcd pass with a retrieved node list, when a listed node has
\* no machine and every machine has a NodeRef, the cluster-level
\* EtcdClusterHealthy condition reports the problem: it is neither absent nor
\* True.
C33_EtcdOrphanNodeReportedAtKCP ==
  (epc = "done" /\ OrphanNode /\ ~hasProvisioningMachine(machines)) =>
    kcpEtcd.status \notin {"None", "True"}

\* C34: after the aggregation, when no machine carries the agent condition and
\* there is no cluster-level error, the cluster carries no such condition.
C34_NoMachineConditionNoKCPCondition ==
  (Aggregated /\ kcpErrors = <<>> /\ \A m \in MachineNames : machines[m].agent.status = "None")
    => kcp.status = "None"

\* the node loop has just retrieved the status of the node it is at, with this result
Retrieved(r) == AtNode /\ ni' = ni + 1 /\ got' = Append(got, r)

\* C35: when the status of a listed node is retrieved for a machine that is not
\* being deleted and whose node is not tainted unreachable, the agent
\* condition of every machine is left exactly as it was if the node lacks
\* Ready=True, and with Ready=True only the machine of the node changes, to True.
C35_NotReadyLeavesCondition ==
  [][/\ Retrieved("not-ready") => machines' = machines
     /\ Retrieved("ready") =>
          \E m \in MachinesOf(nodes[ni]) :
            /\ Inspectable(m)
            /\ machines' = [machines EXCEPT ![m].agent = TrueCond]
     /\ \A m \in MachineNames :
          (AtNode /\ ni' = ni + 1 /\ machines'[m].agent = TrueCond /\ machines[m].agent # TrueCond)
            => Retrieved("ready")]_vars

\* C35 witness: the node of a machine carrying True was retrieved without
\* Ready=True and the machine still carries True
C35_Witness ==
  /\ hpc = "nodes"
  /\ ni = 2
  /\ got = <<"not-ready">>
  /\ \E m \in MachinesOf(nodes[1]) :
       /\ machines[m].agent = TrueCond
       /\ ~machines[m].deleting
  /\ ~nodes[1].unreachable

(***************************************************************************)
(* Claims about the rollout selection (RolloutSpec).                       *)
(***************************************************************************)
\* C38: MachinesNeedingRollout and UpToDateMachines of the same control plane
\* are disjoint, every machine without a deletion timestamp is in exactly one
\* of them, and no machine with a deletion timestamp is in
\* MachinesNeedingRollout.
C38_RolloutPartition ==
  /\ (cpRollout.needDone /\ cpRollout.upDone) =>
       /\ cpRollout.need \cap cpRollout.up = {}
       /\ \A m \in CPMachineNames \ cpDeleting : m \in cpRollout.need \cup cpRollout.up
  /\ cpRollout.needDone => cpRollout.need \cap cpDeleting = {}

\* C38 witness: a machine matching the configuration needs rollout because the
\* deadline has expired, next to an up-to-date machine and a deleting one
C38_Witness ==
  /\ cpRollout.needDone
  /\ cpRollout.upDone
  /\ \E m \in cpRollout.need : m \in cpMatches
  /\ cpRollout.up # {}
  /\ cpDeleting # {}

\* the module left an outcome other than skipped
ModuleRan(m) == \E k \in DOMAIN trace : trace[k].module = m /\ trace[k].outcome # "skipped"

ModuleSkipped(m) == \E k \in DOMAIN trace : trace[k] = Outcome(m, "skipped")

\* cache keys the tasks of a module read on the hosts they select
ModuleReads(m) ==
  LocalReads(m) \cup
  UNION {UNION {ActionReads(ModuleTasks(m)[t].action, h) :
                  h \in {g \in HostNames : HasRole(g, ModuleTasks(m)[t].hosts)}} :
           t \in DOMAIN ModuleTasks(m)}

\* every key a module reads is published by a module declared before it
WrittenEarlier ==
  \A j \in DOMAIN Modules(pipe) :
    \A key \in ModuleReads(Modules(pipe)[j]) :
      \E w \in 1..(j - 1) : key \in ModulePublishes(Modules(pipe)[w])

C40_OneRepositoryModule ==
  pipe = "InitDependencies" =>
    /\ IsSkip("RepositoryModule") # IsSkip("RepositoryOnlineModule")
    /\ IsSkip("RepositoryOnlineModule") <=> conf.artifact # ""
    /\ ~(ModuleRan("RepositoryModule") /\ ModuleRan("RepositoryOnlineModule"))
    /\ ~(ModuleSkipped("RepositoryModule") /\ ModuleSkipped("RepositoryOnlineModule"))
    /\ pres = "ok" =>
         /\ ModuleRan("RepositoryModule") <=> conf.artifact # ""
         /\ ModuleRan("RepositoryOnlineModule") <=> conf.artifact = ""

\* C40 witness: with an artifact and without InstallPackages the pipeline ended,
\* the offline module ran and the online module was skipped
C40_Witness ==
  /\ pipe = "InitDependencies"
  /\ pres = "ok"
  /\ conf.artifact # ""
  /\ ~conf.installPackages
  /\ ModuleRan("RepositoryModule")
  /\ ModuleSkipped("RepositoryOnlineModule")


(***************************************************************************)
(* Claims about the interactive confirmations (ConfirmSpec).               *)
(***************************************************************************)
\* C39: every confirmation action ends on every input: it goes on at yes or y,
\* exits at no or n, asks again at any other line, and when the input ends
\* without an answer it stops with an error or an exit.
C39_ConfirmationTerminates ==
  /\ <>(qpc = "ended")
  /\ [][(qpc = "read" /\ qlines # <<>>) =>
          CASE Normalize(Head(qlines)) \in {"yes", "y"} -> qpc' = "ended" /\ qres' = "nil"
            [] Normalize(Head(qlines)) \in {"no", "n"} -> qpc' = "ended" /\ qres' = "exit0"
            [] OTHER -> qpc' = "prompt"]_vars

(***************************************************************************)
(* Claims about task actions (ActionSpec).                                 *)
(***************************************************************************)
\* Execute has returned from a second or later execution that began with the
\* post-condition of the action satisfied and the cache filled, and nothing
\* failed on its own
ReturnedOnSatisfied ==
  /\ apc = "returned"
  /\ aexec >= 2
  /\ PostCondition(aact, aworld0)
  /\ acache = [status |-> "valid", binaries |-> "docker"]
  /\ ~afault

\* C24: an action executed on a cluster or host that already satisfies its
\* post-condition changes nothing, issues no request or command, and returns
\* success.
C24_ActionIdempotent ==
  ReturnedOnSatisfied => (aret = "ok" /\ aworld = aworld0 /\ aops = <<>>)

(***************************************************************************)
(* Claims about the pipeline engine (PipeSpec).                            *)
(***************************************************************************)
\* the pipeline has been started again after a run that succeeded
SecondRun == runs = 2

\* C25: a second run of a pipeline on hosts the first run converged returns
\* success and issues no mutating remote command; in particular no task of
\* InstallContainerModule or InstallCriDockerdModule runs its action.
C25_SecondRunNoMutation ==
  SecondRun =>
    /\ \A c \in rcmds : c.module \notin {"InstallContainerModule", "InstallCriDockerdModule"}
    /\ (pipe = "AddNodes" /\ ppc = "done") => pres = "ok"

ModuleFailed == ppc = "hosts" /\ AllFinished /\ \E h \in HostNames : hs[h] = "failed"

\* the modules handled so far are the first modules of the pipeline, in declared order
InDeclaredOrder ==
  /\ Len(trace) <= Len(Modules(pipe))
  /\ \A k \in DOMAIN trace : trace[k].module = Modules(pipe)[k]

\* remote commands come from modules handled before, or from the current one
OneModuleAtATime ==
  \A c \in rcmds :
    \/ \E k \in DOMAIN trace : trace[k].module = c.module
    \/ ppc \in {"task", "hosts"} /\ c.module = Modules(pipe)[Len(trace) + 1]

\* a failed module is the last one handled, and the pipeline returns its error
FailureEndsPipeline ==
  /\ \A k \in DOMAIN trace : trace[k].outcome = "failed" => (k = Len(trace) /\ pres = "failed")
  /\ pres = "failed" => (ppc = "done" /\ trace # <<>> /\ trace[Len(trace)].outcome = "failed")

\* C26: Pipeline.Start runs the modules in declared order, one at a time; when a
\* module fails no later module runs and the error is returned; what earlier
\* modules installed on the hosts stays.
C26_ModulesInOrderStopAtFailure ==
  /\ [](InDeclaredOrder /\ OneModuleAtATime /\ FailureEndsPipeline)
  /\ [][/\ ModuleFailed => (pres' = "failed" /\ ppc' = "done")
        /\ pres = "failed" => UNCHANGED pvars
        /\ \A h \in HostNames : facts[h] \subseteq facts'[h]]_vars

\* C26 witness: a module failed after an earlier module had installed something,
\* and modules remain that were not run
C26_Witness ==
  /\ pres = "failed"
  /\ Len(trace) >= 2
  /\ Len(trace) < Len(Modules(pipe))
  /\ \E h \in HostNames : facts[h] # {}

\* the skip predicates as the pipelines state them
SpecSkip(m) ==
  \/ m = "InstallCriDockerdModule" /\ conf.containerManager # "docker"
  \/ m = "UnArchiveModule" /\ conf.artifact = ""
  \/ m = "ConfigureOSModule" /\ conf.skipConfigureOS

\* C27: when the skip predicate of a module is True, none of its tasks runs on
\* any host, no condition, cache entry or host is modified, and the pipeline
\* goes on with the next module as after a success.
C27_SkippedModuleTouchesNothing ==
  [][(AtModule /\ SpecSkip(cmod)) =>
       /\ mi' = mi + 1
       /\ ppc' = "module"
       /\ trace' = Append(trace, Outcome(cmod, "skipped"))
       /\ UNCHANGED <<hs, att, started, rcmds, pcache, facts, conds, pres>>]_vars

\* C27 witness: InstallCriDockerdModule was skipped (containerd declared) and the next module ran
C27_Witness ==
  /\ conf.containerManager = "containerd"
  /\ \E k \in DOMAIN trace :
       /\ trace[k] = Outcome("InstallCriDockerdModule", "skipped")
       /\ k < Len(trace)
       /\ trace[k + 1].outcome = "ok"
  /\ rcmds # {}

\* C28: with retry budget k the action is attempted at most k+1 times on a host;
\* a host fails only after k+1 failed attempts (after one attempt when k = 0),
\* so j <= k failures followed by a success make the host succeed.
C28_RetryBudget ==
  /\ [](ppc = "hosts" =>
          \A h \in HostNames :
            /\ att[h] <= ctask.retry + 1
            /\ hs[h] = "failed" => att[h] = ctask.retry + 1
            /\ hs[h] = "retry" => att[h] <= ctask.retry)
  /\ [][ppc = "hosts" =>
          \A h \in HostNames :
            (hs[h] = "running" /\ hs'[h] # "running") =>
               \/ hs'[h] = "ok"
               \/ hs'[h] = (IF att[h] <= ctask.retry THEN "retry" ELSE "failed")]_vars

\* C28 witness: with budget 2 the action failed twice and then succeeded
C28_Witness ==
  /\ ppc = "hosts"
  /\ ctask.retry = 2
  /\ \E h \in HostNames : hs[h] = "ok" /\ att[h] = 3

\* C29: in a task with the parallelism flag false at most one host executes the
\* action at a time, hosts start in selector order, and a host starts only
\* after the host before it has completed.
C29_SequentialTask ==
  (ppc = "hosts" /\ ~ctask.parallel) =>
    /\ Cardinality({h \in HostNames : hs[h] \in {"running", "retry"}}) <= 1
    /\ \A a, b \in DOMAIN started :
         a < b => (HostIndex(started[a]) < HostIndex(started[b]) /\ Finished(started[a]))

\* C29 witness: the migration ran on the first host, then started on the second
C29_Witness ==
  /\ ppc = "hosts"
  /\ ctask.action = "MigrateSelfNodeCri"
  /\ Len(started) = 2
  /\ hs[started[2]] = "running"

\* the inventory is empty, or no task of the pipeline selects any of its hosts
NothingSelected ==
  \A k \in DOMAIN Modules(pipe) :
    \A t \in DOMAIN ModuleTasks(Modules(pipe)[k]) :
      \A h \in HostNames : ~HasRole(h, ModuleTasks(Modules(pipe)[k])[t].hosts)

\* C30: with an empty inventory, or hosts no task selects, the pipeline issues no
\* remote command and ends with success.
C30_EmptyInventorySucceeds ==
  NothingSelected => (rcmds = {} /\ (ppc = "done" => pres = "ok"))

====
